---- MODULE Spec2Model ----
(***************************************************************************)
(* Verification model of the XDL Processing core (guygrubbs/phd-fits):     *)
(*   - the filename parameter parser   (src/src/filename_parser.py)        *)
(*   - the entity catalog               (src/src/data_model.py)            *)
(*   - the impact region detector       (src/src/esa_analysis.py)          *)
(*   - the k-factor estimator           (src/src/esa_analysis.py)          *)
(*                                                                         *)
(* Conventions                                                             *)
(*   Optional[T]  : None is <<>>, a present value v is <<v>>.              *)
(*   float        : an exact rational <<n, d>> in lowest terms, d > 0.     *)
(*   str          : a TLA+ string; a character is a string of length 1.    *)
(*   an operation that can raise returns [raised |-> ..., value |-> ...].  *)
(***************************************************************************)
EXTENDS Integers, Sequences, FiniteSets, TLC

VARIABLES
    filename,      \* parser: the argument of parse_filename
    params,        \* parser: Optional ExperimentalParameters returned
    exc,           \* parser: Optional name of the exception that escaped
    directory,     \* catalog: listing of the data directory (Optional sequence of names)
    stat,          \* catalog: what the file system answers for the paths it holds
                   \* (path -> "file", "dangling" or "vanishing"; others are files)
    files,         \* catalog: DataManager.files
    call,          \* catalog: the last grouping call made, <<op, args...>>
    groups,        \* catalog: the list of groups that call returned
    data_file,     \* detector: Optional DataFile handed to the detector
    image,         \* detector: the FitsData that reading that file's content yields
                   \* (for a batch: one per file of files)
    region,        \* detector: Optional ImpactRegion returned
    regions,       \* the list analyze_impact_regions returned, or the argument of
                   \* estimate_k_factor
    result,        \* estimator: Optional result dictionary returned
    pc             \* which step of the scenario has been taken

vars == <<filename, params, exc, directory, stat, files, call, groups,
          data_file, image, region, regions, result, pc>>

(* Optional values *)

None == <<>>

Some(v) == <<v>>

IsNone(x) == Len(x) = 0

IsSome(x) == Len(x) = 1

Get(x) == x[1]

(* Exact rationals standing for Python floats *)

Abs(x) == IF x < 0 THEN -x ELSE x

RECURSIVE Gcd(_, _)
Gcd(a, b) == IF b = 0 THEN a ELSE Gcd(b, a % b)

Rat(n, d) ==
    LET sn == IF d < 0 THEN -n ELSE n
        sd == Abs(d)
        g  == Gcd(Abs(sn), sd)
    IN  <<sn \div g, sd \div g>>

RInt(n) == <<n, 1>>

\* the least common multiple of the denominators of x and y
Lcm(x, y) == (x[2] \div Gcd(x[2], y[2])) * y[2]

RAdd(x, y) ==
    Rat(x[1] * (Lcm(x, y) \div x[2]) + y[1] * (Lcm(x, y) \div y[2]), Lcm(x, y))

RSub(x, y) ==
    Rat(x[1] * (Lcm(x, y) \div x[2]) - y[1] * (Lcm(x, y) \div y[2]), Lcm(x, y))

RMul(x, y) == Rat(x[1] * y[1], x[2] * y[2])

RDiv(x, y) == Rat(x[1] * y[2], x[2] * y[1])

RAbs(x) == <<Abs(x[1]), x[2]>>

RLt(x, y) == x[1] * y[2] < y[1] * x[2]

RLe(x, y) == x[1] * y[2] <= y[1] * x[2]

RMin(x, y) == IF RLt(y, x) THEN y ELSE x

RMax(x, y) == IF RLt(x, y) THEN y ELSE x

RZero == RInt(0)

(* Characters and strings *)

Digit == {"0", "1", "2", "3", "4", "5", "6", "7", "8", "9"}

Lower == {"a", "b", "c", "d", "e", "f", "g", "h", "i", "j", "k", "l", "m",
          "n", "o", "p", "q", "r", "s", "t", "u", "v", "w", "x", "y", "z"}

Upper == {"A", "B", "C", "D", "E", "F", "G", "H", "I", "J", "K", "L", "M",
          "N", "O", "P", "Q", "R", "S", "T", "U", "V", "W", "X", "Y", "Z"}

\* \w
Word == Digit \cup Lower \cup Upper \cup {"_"}

\* \s
Space == {" "}

\* [\w\-\.]
WordDashDot == Word \cup {"-", "."}

CharAt(s, i) == SubSeq(s, i, i)

StartsWithAt(s, i, lit) ==
    /\ i + Len(lit) - 1 <= Len(s)
    /\ SubSeq(s, i, i + Len(lit) - 1) = lit

EndsWith(s, suffix) ==
    /\ Len(suffix) <= Len(s)
    /\ SubSeq(s, Len(s) - Len(suffix) + 1, Len(s)) = suffix

DropLast(s, n) == SubSeq(s, 1, Len(s) - n)

DigitVal(c) ==
    CASE c = "0" -> 0 [] c = "1" -> 1 [] c = "2" -> 2 [] c = "3" -> 3
      [] c = "4" -> 4 [] c = "5" -> 5 [] c = "6" -> 6 [] c = "7" -> 7
      [] c = "8" -> 8 [] c = "9" -> 9

AllDigits(s) == \A i \in 1..Len(s) : CharAt(s, i) \in Digit

RECURSIVE DigitsVal(_)
DigitsVal(s) ==
    IF Len(s) = 0 THEN 0
    ELSE 10 * DigitsVal(DropLast(s, 1)) + DigitVal(CharAt(s, Len(s)))

RECURSIVE Pow10(_)
Pow10(k) == IF k = 0 THEN 1 ELSE 10 * Pow10(k - 1)

\* position of the first occurrence of the one-character string c in s, 0 if none
IndexOf(s, c) ==
    IF \E i \in 1..Len(s) : CharAt(s, i) = c
    THEN CHOOSE i \in 1..Len(s) :
            /\ CharAt(s, i) = c
            /\ \A j \in 1..(i - 1) : CharAt(s, j) # c
    ELSE 0

\* position of the last occurrence of c in s, 0 if none
LastIndexOf(s, c) ==
    IF \E i \in 1..Len(s) : CharAt(s, i) = c
    THEN CHOOSE i \in 1..Len(s) :
            /\ CharAt(s, i) = c
            /\ \A j \in (i + 1)..Len(s) : CharAt(s, j) # c
    ELSE 0

Ok(v) == [raised |-> FALSE, value |-> v]

Raise(e) == [raised |-> TRUE, value |-> e]

\* float(s) for the decimal literals  [+-]?digits[.digits]  ; anything else raises ValueError
float(s) ==
    LET signed == Len(s) > 0 /\ CharAt(s, 1) \in {"-", "+"}
        body   == IF signed THEN SubSeq(s, 2, Len(s)) ELSE s
        dot    == IndexOf(body, ".")
        ipart  == IF dot = 0 THEN body ELSE SubSeq(body, 1, dot - 1)
        fpart  == IF dot = 0 THEN "" ELSE SubSeq(body, dot + 1, Len(body))
        valid  == /\ AllDigits(ipart) /\ AllDigits(fpart)
                  /\ Len(ipart) + Len(fpart) > 0
        mag    == Rat(DigitsVal(ipart) * Pow10(Len(fpart)) + DigitsVal(fpart),
                      Pow10(Len(fpart)))
    IN  IF ~valid THEN Raise("ValueError")
        ELSE IF signed /\ CharAt(s, 1) = "-" THEN Ok(<<-mag[1], mag[2]>>)
        ELSE Ok(mag)

(* Regular expressions (module re): abstract syntax and a matcher that      *)
(* returns what Python's backtracking engine returns.  The patterns have no *)
(* back-references, so whether the rest of a pattern can still match        *)
(* depends on the position alone: at every choice the engine ends up with   *)
(* the alternative of highest priority (greedy: the longest repetition, an  *)
(* optional part present before absent) from which the rest can match.      *)

Lit(s) == [k |-> "lit", s |-> s]

Cls(c) == [k |-> "cls", c |-> c]

Cat(rs) == [k |-> "cat", rs |-> rs]

Opt(r) == [k |-> "opt", r |-> r]

\* c+ for a character class c
Plus(c) == [k |-> "plus", c |-> c]

\* c{n} for a character class c
Rep(c, n) == [k |-> "rep", c |-> c, n |-> n]

Grp(name, r) == [k |-> "grp", name |-> name, r |-> r]

GroupNames == {"inner_angle", "hor_value", "beam_energy", "focus_x", "focus_y",
               "offset_x", "offset_y", "wave_type", "esa_voltage", "mcp_voltage",
               "mcp_extra", "timestamp", "sequence", "date"}

\* every character of s from position p up to e - 1 is of class c
RunOf(s, p, e, c) == \A j \in p..(e - 1) : CharAt(s, j) \in c

\* the position after the longest run of characters of class c that starts at p
RunEnd(s, p, c) ==
    CHOOSE e \in p..(Len(s) + 1) :
        /\ e = Len(s) + 1 \/ CharAt(s, e) \notin c
        /\ RunOf(s, p, e, c)

\* the positions of s and the one after its end
Positions(s) == 1..(Len(s) + 1)

\* the positions at which r can end when it starts at a position of P
RECURSIVE Ends(_, _, _)
RECURSIVE EndsFrom(_, _, _, _)
Ends(r, s, P) ==
    CASE r.k = "lit" -> {p + Len(r.s) : p \in {q \in P : StartsWithAt(s, q, r.s)}}
      [] r.k = "cls" -> {p + 1 : p \in {q \in P : q <= Len(s) /\ CharAt(s, q) \in r.c}}
      [] r.k = "plus" ->
            UNION {(p + 1)..RunEnd(s, p, r.c) : p \in P}
      [] r.k = "rep" ->
            {p + r.n : p \in {q \in P : q + r.n <= Len(s) + 1 /\ RunOf(s, q, q + r.n, r.c)}}
      [] r.k = "opt" -> P \cup Ends(r.r, s, P)
      [] r.k = "grp" -> Ends(r.r, s, P)
      [] r.k = "cat" -> EndsFrom(r.rs, s, P, 1)

\* ... for the items rs[k], rs[k+1], ... in sequence
EndsFrom(rs, s, P, k) ==
    IF k > Len(rs) \/ P = {} THEN P
    ELSE EndsFrom(rs, s, Ends(rs[k], s, P), k + 1)

\* fw[k] : the positions the items before rs[k] can reach; fw starts as <<P>>
RECURSIVE FwdSets(_, _, _)
FwdSets(rs, s, fw) ==
    IF Len(fw) > Len(rs) THEN fw
    ELSE FwdSets(rs, s, Append(fw, Ends(rs[Len(fw)], s, fw[Len(fw)])))

\* bw[k] : the positions of fw[k] from which rs[k], rs[k+1], ... can end in T;
\* bw starts with its last entry and grows to the front
RECURSIVE BwdSets(_, _, _, _)
BwdSets(rs, s, fw, bw) ==
    IF Len(bw) > Len(rs) THEN bw
    ELSE BwdSets(rs, s, fw,
                 <<{p \in fw[Len(rs) + 1 - Len(bw)] :
                      Ends(rs[Len(rs) + 1 - Len(bw)], s, {p}) \cap bw[1] # {}}>> \o bw)

Feasible(rs, s, fw, T) == BwdSets(rs, s, fw, <<fw[Len(rs) + 1] \cap T>>)

SetMax(S) == CHOOSE x \in S : \A y \in S : y <= x

SetMin(S) == CHOOSE x \in S : \A y \in S : x <= y

\* the longest of the ends in S; pos = 0 stands for no match
Longest(S, caps) ==
    IF S = {} THEN [pos |-> 0, caps |-> caps] ELSE [pos |-> SetMax(S), caps |-> caps]

\* the match m of a group that started at p, with the group recorded
Capture(name, s, p, m) ==
    IF m.pos = 0 THEN m
    ELSE [pos |-> m.pos, caps |-> [m.caps EXCEPT ![name] = Some(SubSeq(s, p, m.pos - 1))]]

\* the way the engine matches r from position p, given that r must end in T
\* (T holds an end of r from p): the end position and the groups captured
RECURSIVE Select(_, _, _, _, _)
RECURSIVE SelectCat(_, _, _, _)
RECURSIVE SelectFrom(_, _, _, _, _)
Select(r, s, p, caps, T) ==
    CASE r.k = "lit" -> [pos |-> p + Len(r.s), caps |-> caps]
      [] r.k = "cls" -> [pos |-> p + 1, caps |-> caps]
      [] r.k = "rep" -> [pos |-> p + r.n, caps |-> caps]
      [] r.k = "plus" -> Longest(Ends(r, s, {p}) \cap T, caps)
      [] r.k = "opt" ->
            IF Ends(r.r, s, {p}) \cap T # {} THEN Select(r.r, s, p, caps, T)
            ELSE [pos |-> p, caps |-> caps]
      [] r.k = "grp" -> Capture(r.name, s, p, Select(r.r, s, p, caps, T))
      [] r.k = "cat" ->
            SelectCat(r.rs, s, [pos |-> p, caps |-> caps],
                      Feasible(r.rs, s, FwdSets(r.rs, s, <<{p}>>), T))

\* the items rs from the match m so far; no match when no way through the
\* items ends in T
SelectCat(rs, s, m, bw) ==
    IF bw[1] = {} THEN [pos |-> 0, caps |-> m.caps] ELSE SelectFrom(rs, s, m, bw, 1)

\* the items rs[k], rs[k+1], ... from the match m so far, each ending where
\* the items after it can still end in T (bw as above)
SelectFrom(rs, s, m, bw, k) ==
    IF k > Len(rs) \/ m.pos = 0 THEN m
    ELSE SelectFrom(rs, s, Select(rs[k], s, m.pos, m.caps, bw[k + 1]), bw, k + 1)

NoGroups == [g \in GroupNames |-> None]

\* pattern.search(s): the groupdict of the leftmost match, None if there is none
search(r, s) ==
    IF Ends(r, s, Positions(s)) = {} THEN None
    ELSE Some(Select(r, s, SetMin({p \in Positions(s) : Ends(r, s, {p}) # {}}),
                     NoGroups, Positions(s)).caps)

(* FilenameParser.__init__: the compiled patterns, in dictionary order *)

Digits == Plus(Digit)

\* \d+(?:\.\d+)?
Decimal == Cat(<<Digits, Opt(Cat(<<Lit("."), Digits>>))>>)

\* -?\d+(?:\.\d+)?
SignedDecimal == Cat(<<Opt(Lit("-")), Decimal>>)

\* \d+(?:\.\d+)?(?:k)?eV
EnergyLower == Cat(<<Decimal, Opt(Lit("k")), Lit("eV")>>)

\* \d+(?:\.\d+)?[kK]?[eE]V
EnergyAnyCase == Cat(<<Decimal, Opt(Cls({"k", "K"})), Cls({"e", "E"}), Lit("V")>>)

\* (?P<timestamp>\d{6}-\d{6})?
TimestampOpt == Opt(Grp("timestamp", Cat(<<Rep(Digit, 6), Lit("-"), Rep(Digit, 6)>>)))

Spaces == Plus(Space)

\* the lines the detailed and the rotating pattern share
BeamLine == Cat(<<Lit("Beam-"), Grp("beam_energy", EnergyLower), Lit("_")>>)

FocusLine ==
    Cat(<<Lit("Focus-X-"), Grp("focus_x", Plus(WordDashDot)),
          Lit("-Y-"), Grp("focus_y", Plus(WordDashDot)), Lit("_")>>)

OffsetLine ==
    Cat(<<Lit("Offset-X-"), Grp("offset_x", Plus(WordDashDot)),
          Lit("_Y-"), Grp("offset_y", Plus(WordDashDot)), Lit("_")>>)

WaveLine == Cat(<<Lit("Wave-"), Grp("wave_type", Plus(Word)), Lit("_")>>)

EsaLine == Cat(<<Lit("ESA-"), Grp("esa_voltage", SignedDecimal), Lit("_")>>)

McpLine ==
    Cat(<<Lit("MCP-"), Grp("mcp_voltage", Decimal), Lit("-"), Grp("mcp_extra", Digits)>>)

\* ACI\s+ESA\s+
AciEsa == Cat(<<Lit("ACI"), Spaces, Lit("ESA"), Spaces>>)

detailed ==
    Cat(<<Cat(<<Lit("ACI_ESA-Inner-"),
                Grp("inner_angle",
                    Cat(<<Opt(Lit("-")), Digits,
                          Opt(Cat(<<Lit("to"), Opt(Lit("-")), Digits>>))>>)),
                Lit("-Hor"), Grp("hor_value", Digits), Lit("_")>>),
          BeamLine, FocusLine, OffsetLine, WaveLine, EsaLine, McpLine, TimestampOpt>>)

simple_energy ==
    Cat(<<AciEsa, Grp("beam_energy", EnergyLower), TimestampOpt>>)

\* a voltage and energy pattern that takes the energy units of simple_energy
voltage_energy_lower ==
    Cat(<<AciEsa,
          Cat(<<Grp("esa_voltage", Digits), Lit("V"), Spaces>>),
          Cat(<<Grp("beam_energy", EnergyLower), Spaces, Lit("BEAM")>>),
          TimestampOpt>>)

voltage_energy ==
    Cat(<<AciEsa,
          Cat(<<Grp("esa_voltage", Digits), Lit("V"), Spaces>>),
          Cat(<<Grp("beam_energy", EnergyAnyCase), Spaces, Lit("BEAM")>>),
          TimestampOpt>>)

beam_prep ==
    Cat(<<AciEsa,
          Cat(<<Grp("beam_energy", EnergyAnyCase), Spaces, Lit("BEAM"), Spaces, Lit("PREP")>>),
          TimestampOpt>>)

ramp_up ==
    Cat(<<Cat(<<Lit("ACI"), Spaces, Opt(Cat(<<Lit("ESA"), Spaces>>)),
                Lit("RAMP"), Spaces, Lit("UP")>>),
          Opt(Cat(<<Spaces, Grp("sequence", Cat(<<Plus(Word), Opt(Digits)>>))>>)),
          Opt(Cat(<<Spaces, Grp("date", Rep(Digit, 8))>>)),
          Opt(Cat(<<Spaces, Lit("ESA"), Spaces, Grp("esa_voltage", Digits), Lit("V")>>)),
          TimestampOpt>>)

dark ==
    Cat(<<AciEsa,
          Cat(<<Lit("Dark"), Spaces, Grp("date", Rep(Digit, 6)), Opt(Lit(".fits"))>>),
          TimestampOpt>>)

rotating ==
    Cat(<<Cat(<<Lit("ACI_ESA_Rotating"), Opt(Grp("sequence", Digits)), Lit("_")>>),
          BeamLine, FocusLine, OffsetLine, WaveLine, EsaLine, McpLine, TimestampOpt>>)

PatternNames ==
    <<"detailed", "simple_energy", "voltage_energy", "beam_prep",
      "ramp_up", "dark", "rotating">>

patterns ==
    [detailed |-> detailed, simple_energy |-> simple_energy,
     voltage_energy |-> voltage_energy, beam_prep |-> beam_prep,
     ramp_up |-> ramp_up, dark |-> dark, rotating |-> rotating]

(* FilenameParser: field extraction *)

\* os.path.basename
basename(path) == SubSeq(path, LastIndexOf(path, "/") + 1, Len(path))

_get_file_type(name) ==
    IF EndsWith(name, ".fits") THEN "fits"
    ELSE IF EndsWith(name, ".map") THEN "map"
    ELSE IF EndsWith(name, ".phd") THEN "phd"
    ELSE "unknown"

_clean_filename_for_parsing(name) ==
    IF EndsWith(name, ".fits.map") THEN DropLast(name, 9)
    ELSE IF EndsWith(name, ".fits.phd") THEN DropLast(name, 9)
    ELSE IF EndsWith(name, ".fits") THEN DropLast(name, 5)
    ELSE IF EndsWith(name, ".map") THEN DropLast(name, 4)
    ELSE IF EndsWith(name, ".phd") THEN DropLast(name, 4)
    ELSE name

\* the dataclass defaults of ExperimentalParameters
ExperimentalParameters(fname, ftype, bname) ==
    [filename |-> fname, file_type |-> ftype, base_name |-> bname,
     beam_energy |-> None, beam_energy_value |-> None, beam_energy_unit |-> None,
     esa_voltage |-> None, esa_voltage_value |-> None,
     mcp_voltage |-> None, mcp_voltage_value |-> None,
     inner_angle |-> None, inner_angle_value |-> None,
     inner_angle_range |-> None, is_angle_range |-> FALSE,
     horizontal_value |-> None, horizontal_value_num |-> None,
     focus_x |-> None, focus_y |-> None, offset_x |-> None, offset_y |-> None,
     wave_type |-> None, timestamp |-> None, datetime_obj |-> None,
     is_dark |-> FALSE, is_ramp |-> FALSE, is_rotating |-> FALSE,
     test_type |-> None, sequence_info |-> None]

\* _parse_energy without the factor 1000 of the kilo units
_parse_energy_unscaled(energy_str) ==
    IF \/ EndsWith(energy_str, "keV") \/ EndsWith(energy_str, "kEV")
       \/ EndsWith(energy_str, "KEV") \/ EndsWith(energy_str, "KeV")
    THEN LET v == float(DropLast(energy_str, 3))
         IN  IF v.raised THEN v ELSE Ok(<<v.value, "eV">>)
    ELSE LET v == float(DropLast(energy_str, 2))
         IN  IF v.raised THEN v ELSE Ok(<<v.value, "eV">>)

\* returns (value, unit); the unit is always "eV"
_parse_energy(energy_str) ==
    IF \/ EndsWith(energy_str, "keV") \/ EndsWith(energy_str, "kEV")
       \/ EndsWith(energy_str, "KEV") \/ EndsWith(energy_str, "KeV")
    THEN LET v == float(DropLast(energy_str, 3))
         IN  IF v.raised THEN v ELSE Ok(<<RMul(v.value, RInt(1000)), "eV">>)
    ELSE IF EndsWith(energy_str, "eV") \/ EndsWith(energy_str, "EV")
    THEN LET v == float(DropLast(energy_str, 2))
         IN  IF v.raised THEN v ELSE Ok(<<v.value, "eV">>)
    ELSE LET v == float(energy_str)
         IN  IF v.raised THEN v ELSE Ok(<<v.value, "eV">>)

\* str.split("to"): the pieces between non-overlapping occurrences, left to right
RECURSIVE SplitTo(_, _, _)
SplitTo(s, start, i) ==
    IF i > Len(s) THEN <<SubSeq(s, start, Len(s))>>
    ELSE IF StartsWithAt(s, i, "to")
    THEN <<SubSeq(s, start, i - 1)>> \o SplitTo(s, i + 2, i + 2)
    ELSE SplitTo(s, start, i + 1)

\* _parse_angle returning the two angles of a range in the order written
_parse_angle_unordered(angle_str) ==
    LET parts == SplitTo(angle_str, 1, 1)
    IN  IF Len(parts) = 2
        THEN LET angle1 == float(parts[1])
                 angle2 == float(parts[2])
             IN  IF angle1.raised \/ angle2.raised THEN Raise("NameError")
                 ELSE Ok([range |-> <<angle1.value, angle2.value>>])
        ELSE float(parts[1])

\* a float, or a [range |-> <<min, max>>] for "AtoB"
_parse_angle(angle_str) ==
    LET parts == SplitTo(angle_str, 1, 1)
    IN  IF Len(parts) > 1
        THEN IF Len(parts) = 2
             THEN LET angle1 == float(parts[1])
                      angle2 == float(parts[2])
                  IN  IF angle1.raised \/ angle2.raised
                      \* the handler calls logger, a name the module never defines
                      THEN Raise("NameError")
                      ELSE Ok([range |-> <<RMin(angle1.value, angle2.value),
                                           RMax(angle1.value, angle2.value)>>])
             ELSE float(parts[1])
        ELSE float(angle_str)

IsLeap(y) == (y % 4 = 0 /\ y % 100 # 0) \/ y % 400 = 0

DaysInMonth(y, m) ==
    IF m = 2 THEN (IF IsLeap(y) THEN 29 ELSE 28)
    ELSE IF m \in {4, 6, 9, 11} THEN 30 ELSE 31

\* a strptime that takes every two-digit year for a year of the 1900s
strptime_1900s(s) ==
    LET yy == DigitsVal(SubSeq(s, 1, 2))
        mo == DigitsVal(SubSeq(s, 3, 4))
        dd == DigitsVal(SubSeq(s, 5, 6))
        hh == DigitsVal(SubSeq(s, 8, 9))
        mi == DigitsVal(SubSeq(s, 10, 11))
        ss == DigitsVal(SubSeq(s, 12, 13))
        year == 1900 + yy
        shape == /\ Len(s) = 13 /\ CharAt(s, 7) = "-"
                 /\ AllDigits(SubSeq(s, 1, 6)) /\ AllDigits(SubSeq(s, 8, 13))
    IN  IF /\ shape
           /\ mo \in 1..12 /\ dd \in 1..DaysInMonth(year, mo)
           /\ hh \in 0..23 /\ mi \in 0..59 /\ ss \in 0..59
        THEN Ok([year |-> year, month |-> mo, day |-> dd,
                 hour |-> hh, minute |-> mi, second |-> ss])
        ELSE Raise("ValueError")

\* datetime.strptime(s, '%y%m%d-%H%M%S') on a token of shape \d{6}-\d{6}
strptime(s) ==
    LET yy == DigitsVal(SubSeq(s, 1, 2))
        mo == DigitsVal(SubSeq(s, 3, 4))
        dd == DigitsVal(SubSeq(s, 5, 6))
        hh == DigitsVal(SubSeq(s, 8, 9))
        mi == DigitsVal(SubSeq(s, 10, 11))
        ss == DigitsVal(SubSeq(s, 12, 13))
        year == IF yy <= 68 THEN 2000 + yy ELSE 1900 + yy
        shape == /\ Len(s) = 13 /\ CharAt(s, 7) = "-"
                 /\ AllDigits(SubSeq(s, 1, 6)) /\ AllDigits(SubSeq(s, 8, 13))
    IN  IF /\ shape
           /\ mo \in 1..12 /\ dd \in 1..DaysInMonth(year, mo)
           /\ hh \in 0..23 /\ mi \in 0..59 /\ ss \in 0..59
        THEN Ok([year |-> year, month |-> mo, day |-> dd,
                 hour |-> hh, minute |-> mi, second |-> ss])
        ELSE Raise("ValueError")

\* _parse_timestamp without its except clause
_parse_timestamp_uncaught(timestamp_str) ==
    LET r == strptime(timestamp_str)
    IN  IF r.raised THEN r ELSE Ok(Some(r.value))

_parse_timestamp(timestamp_str) ==
    LET r == strptime(timestamp_str)
    IN  IF r.raised /\ r.value = "ValueError" THEN Ok(None)
        ELSE IF r.raised THEN r
        ELSE Ok(Some(r.value))

\* truthiness of groups[name]: the group took part in the match and is non-empty
Captured(gd, name) == IsSome(gd[name]) /\ Len(Get(gd[name])) > 0

\* each step takes the record so far, wrapped by Ok, and returns it updated,
\* or the exception that left the method
ExtractEnergy(p, gd) ==
    IF ~Captured(gd, "beam_energy") THEN Ok(p)
    ELSE LET e == _parse_energy(Get(gd.beam_energy))
         IN  IF e.raised THEN e
             ELSE Ok([p EXCEPT !.beam_energy = gd.beam_energy,
                               !.beam_energy_value = Some(e.value[1]),
                               !.beam_energy_unit = Some(e.value[2])])

\* the ESA voltage taken without its sign
ExtractEsa_unsigned(p, gd) ==
    IF ~Captured(gd, "esa_voltage") THEN Ok(p)
    ELSE LET v == float(Get(gd.esa_voltage))
         IN  IF v.raised THEN v
             ELSE Ok([p EXCEPT !.esa_voltage = gd.esa_voltage,
                               !.esa_voltage_value = Some(RAbs(v.value))])

ExtractEsa(p, gd) ==
    IF ~Captured(gd, "esa_voltage") THEN Ok(p)
    ELSE LET v == float(Get(gd.esa_voltage))
         IN  IF v.raised THEN v
             ELSE Ok([p EXCEPT !.esa_voltage = gd.esa_voltage,
                               !.esa_voltage_value = Some(v.value)])

ExtractMcp(p, gd) ==
    IF ~Captured(gd, "mcp_voltage") THEN Ok(p)
    ELSE LET v == float(Get(gd.mcp_voltage))
         IN  IF v.raised THEN v
             ELSE Ok([p EXCEPT !.mcp_voltage = gd.mcp_voltage,
                               !.mcp_voltage_value = Some(v.value)])

ExtractAngle(p, gd) ==
    IF ~Captured(gd, "inner_angle") THEN Ok(p)
    ELSE LET a == _parse_angle(Get(gd.inner_angle))
         IN  IF a.raised THEN a
             ELSE IF DOMAIN a.value = {"range"}
             THEN Ok([p EXCEPT !.inner_angle = gd.inner_angle,
                               !.inner_angle_range = Some(a.value.range),
                               !.inner_angle_value =
                                   Some(RDiv(RAdd(a.value.range[1], a.value.range[2]),
                                             RInt(2))),
                               !.is_angle_range = TRUE])
             ELSE Ok([p EXCEPT !.inner_angle = gd.inner_angle,
                               !.inner_angle_value = Some(a.value),
                               !.is_angle_range = FALSE])

ExtractHor(p, gd) ==
    IF ~Captured(gd, "hor_value") THEN Ok(p)
    ELSE LET v == float(Get(gd.hor_value))
         IN  IF v.raised THEN v
             ELSE Ok([p EXCEPT !.horizontal_value = gd.hor_value,
                               !.horizontal_value_num = Some(v.value)])

ExtractTokens(p, gd) ==
    Ok([p EXCEPT
          !.focus_x = IF Captured(gd, "focus_x") THEN gd.focus_x ELSE @,
          !.focus_y = IF Captured(gd, "focus_y") THEN gd.focus_y ELSE @,
          !.offset_x = IF Captured(gd, "offset_x") THEN gd.offset_x ELSE @,
          !.offset_y = IF Captured(gd, "offset_y") THEN gd.offset_y ELSE @,
          !.wave_type = IF Captured(gd, "wave_type") THEN gd.wave_type ELSE @])

ExtractTimestamp(p, gd) ==
    IF ~Captured(gd, "timestamp") THEN Ok(p)
    ELSE LET t == _parse_timestamp(Get(gd.timestamp))
         IN  IF t.raised THEN t
             ELSE Ok([p EXCEPT !.timestamp = gd.timestamp,
                               !.datetime_obj = t.value])

ExtractSequence(p, gd) ==
    Ok([p EXCEPT !.sequence_info =
                    IF Captured(gd, "sequence") THEN gd.sequence ELSE @])

SetFlags(p, pattern_name) ==
    Ok(IF pattern_name = "dark" THEN [p EXCEPT !.is_dark = TRUE]
       ELSE IF pattern_name = "ramp_up" THEN [p EXCEPT !.is_ramp = TRUE]
       ELSE IF pattern_name = "rotating" THEN [p EXCEPT !.is_rotating = TRUE]
       ELSE p)

\* the next statement of the method: skipped when an exception is on its way
Then(r, statement(_)) == IF r.raised THEN r ELSE statement(r.value)

_extract_parameters_from_match(p, gd, pattern_name) ==
    Then(Then(Then(Then(Then(Then(Then(Then(
        ExtractEnergy(p, gd),
        LAMBDA q : ExtractEsa(q, gd)),
        LAMBDA q : ExtractMcp(q, gd)),
        LAMBDA q : ExtractAngle(q, gd)),
        LAMBDA q : ExtractHor(q, gd)),
        LAMBDA q : ExtractTokens(q, gd)),
        LAMBDA q : ExtractTimestamp(q, gd)),
        LAMBDA q : ExtractSequence(q, gd)),
        LAMBDA q : SetFlags(q, pattern_name))

\* the classification with the voltage sweep tested before the flags
DeriveTestType_sweep_first(p) ==
    IF IsSome(p.beam_energy) /\ IsSome(p.esa_voltage) THEN "voltage_sweep"
    ELSE IF p.is_dark THEN "dark"
    ELSE IF p.is_ramp THEN "ramp_up"
    ELSE IF p.is_rotating THEN "rotating"
    ELSE IF IsSome(p.beam_energy) THEN "energy_test"
    ELSE "unknown"

\* the value test_type gets from the flags and the presence of the tokens
DeriveTestType(p) ==
    IF p.is_dark THEN "dark"
    ELSE IF p.is_ramp THEN "ramp_up"
    ELSE IF p.is_rotating THEN "rotating"
    ELSE IF /\ IsSome(p.beam_energy) /\ Len(Get(p.beam_energy)) > 0
            /\ IsSome(p.esa_voltage) /\ Len(Get(p.esa_voltage)) > 0
         THEN "voltage_sweep"
    ELSE IF IsSome(p.beam_energy) /\ Len(Get(p.beam_energy)) > 0 THEN "energy_test"
    ELSE "unknown"

_post_process_parameters(p) == [p EXCEPT !.test_type = Some(DeriveTestType(p))]

\* if match: extract the parameters (and break)
IfMatch(p, match, pattern_name) ==
    IF match = None THEN Ok(p)
    ELSE _extract_parameters_from_match(p, Get(match), pattern_name)

\* pattern.search(name_for_parsing) is not None
Matching(pattern_name, name_for_parsing) ==
    Ends(patterns[pattern_name], name_for_parsing, Positions(name_for_parsing)) # {}

\* the loop without its break: every matching pattern extracts in turn
RECURSIVE AllPatterns(_, _, _)
AllPatterns(r, name_for_parsing, k) ==
    IF k > Len(PatternNames) \/ r.raised THEN r
    ELSE IF ~Matching(PatternNames[k], name_for_parsing)
    THEN AllPatterns(r, name_for_parsing, k + 1)
    ELSE AllPatterns(
             IfMatch(r.value, search(patterns[PatternNames[k]], name_for_parsing),
                     PatternNames[k]),
             name_for_parsing, k + 1)

TryPatterns_no_break(p, name_for_parsing) == AllPatterns(Ok(p), name_for_parsing, 1)

\* the place in self.patterns of the pattern at which the loop breaks, 0 when
\* the loop runs to its end
FirstMatching(name_for_parsing) ==
    IF \E k \in 1..Len(PatternNames) : Matching(PatternNames[k], name_for_parsing)
    THEN CHOOSE k \in 1..Len(PatternNames) :
            /\ Matching(PatternNames[k], name_for_parsing)
            /\ \A j \in 1..(k - 1) : ~Matching(PatternNames[j], name_for_parsing)
    ELSE 0

\* the body of the loop for the k-th pattern
LoopBody(p, name_for_parsing, k) ==
    IF k = 0 THEN Ok(p)
    ELSE IfMatch(p, search(patterns[PatternNames[k]], name_for_parsing), PatternNames[k])

\* the loop over self.patterns.items()
TryPatterns(p, name_for_parsing) ==
    LoopBody(p, name_for_parsing, FirstMatching(name_for_parsing))

\* the end of parse_filename, reached unless the loop raised
PostProcess(r) == IF r.raised THEN r ELSE Ok(_post_process_parameters(r.value))

parse_filename(fname) ==
    PostProcess(
        TryPatterns(ExperimentalParameters(fname, _get_file_type(basename(fname)),
                                           basename(fname)),
                    _clean_filename_for_parsing(basename(fname))))

(* The filenames the parser is run on: every naming scheme of the data      *)
(* directory, built from small sets of tokens, plus names no scheme matches *)
(* and names two schemes match.                                             *)

\* numeric tokens with the number each one denotes
NumberTokens ==
    {<<"1000", RInt(1000)>>, <<"5", RInt(5)>>, <<"1.5", Rat(3, 2)>>, <<"0", RInt(0)>>}

EvUnits == {"eV", "EV"}

KiloUnits == {"keV", "kEV", "KeV", "KEV"}

EnergyTokens == {nt[1] \o u : nt \in NumberTokens, u \in EvUnits \cup KiloUnits}

\* signed integer angle tokens with the number each one denotes
AngleNumbers == {<<"62", 62>>, <<"-118", -118>>, <<"84", 84>>, <<"-5", -5>>, <<"7", 7>>}

AngleTokens ==
    {a[1] : a \in AngleNumbers}
    \cup {a[1] \o "to" \o b[1] : a \in AngleNumbers, b \in AngleNumbers}

\* ESA voltage tokens with the number each one denotes
EsaNumbers == {<<"-181", -181>>, <<"912", 912>>, <<"0", 0>>}

EsaTokens == {v[1] : v \in EsaNumbers}

\* timestamp tokens with the date and time each one denotes
Calendar ==
    {<<"240922-190315", <<2024, 9, 22, 19, 3, 15>>>>,
     <<"240229-235959", <<2024, 2, 29, 23, 59, 59>>>>,
     <<"240921-215501", <<2024, 9, 21, 21, 55, 1>>>>,
     <<"240922-213604", <<2024, 9, 22, 21, 36, 4>>>>,
     <<"680101-000000", <<2068, 1, 1, 0, 0, 0>>>>,
     <<"691231-235959", <<1969, 12, 31, 23, 59, 59>>>>}

ValidTimestampTokens == {"240922-190315", "240229-235959"}

\* the years 68 and 69, on the two sides of the pivot of %y, and the
\* timestamp of a name of the data set
CenturyTimestampTokens == {"680101-000000", "691231-235959", "240921-215501"}

\* month 99, 29 February of a common year, second 60
InvalidTimestampTokens == {"249922-190315", "230229-120000", "240922-190360"}

\* "" : no timestamp in the name
TimestampTokens == ValidTimestampTokens \cup InvalidTimestampTokens \cup {""}

Extensions == {".fits", ".map", ".phd", ".fits.map", ".txt", ""}

DetailedHead(a) == "ACI_ESA-Inner-" \o a \o "-Hor79_Beam-"

DetailedTail(v, t) ==
    "_Focus-X-pt4-Y-2_Offset-X--pt1_Y-1_Wave-Triangle_ESA-" \o v \o "_MCP-2200-100" \o t

DetailedNames ==
    {DetailedHead(a) \o e \o DetailedTail("-181", t) \o ".fits" :
       a \in {"62", "84to-118"}, e \in EnergyTokens, t \in {"240922-213604", ""}}
    \cup {DetailedHead("62") \o "1000eV" \o DetailedTail(v, "") \o ".fits" : v \in EsaTokens}
    \cup {DetailedHead(a) \o "1000eV" \o DetailedTail("-181", "") \o ".map" : a \in AngleTokens}

SimpleEnergyNames ==
    {"ACI ESA " \o e \o t \o ".fits" : e \in EnergyTokens, t \in TimestampTokens}
    \cup {"ACI ESA 1000eV240922-190315" \o x : x \in Extensions}
    \cup {"ACI ESA 1000eV" \o t \o ".fits" : t \in CenturyTimestampTokens}
    \cup {"ACI ESA 5KEV240921-215501.fits"}

VoltageEnergyNames ==
    {"ACI ESA 912V " \o e \o " BEAM" \o t \o ".fits" :
       e \in EnergyTokens, t \in TimestampTokens}
    \cup {"ACI ESA " \o v \o "V 5KEV BEAM" \o t \o ".fits" :
            v \in {"912", "181"}, t \in CenturyTimestampTokens}

BeamPrepNames ==
    {"ACI ESA " \o e \o " BEAM PREP" \o t \o ".fits" :
       e \in EnergyTokens, t \in TimestampTokens}
    \cup {"ACI ESA 5kEV BEAM PREP" \o t \o ".fits" : t \in CenturyTimestampTokens}
    \cup {"ACI ESA 5keV BEAM PREP240921-214517.fits"}

RampUpNames ==
    {"ACI " \o p \o "RAMP UP" \o s \o t \o ".fits" :
       p \in {"ESA ", ""},
       s \in {"", "3", " 3", " 20240920", " SEQ2 20240920 ESA 500V", " ESA 500V"},
       t \in {"240920-222421", "249922-190315", ""}}

DarkNames ==
    {"ACI ESA Dark " \o d \o t \o ".fits" :
       d \in {"240922", "240922.fits", "2409"}, t \in TimestampTokens}

RotatingNames ==
    {"ACI_ESA_Rotating" \o s \o "_Beam-" \o e \o DetailedTail(v, t) \o ".fits" :
       s \in {"", "2"}, e \in {"1000eV", "5keV", "5KEV"}, v \in EsaTokens,
       t \in {"240922-213604", ""}}

\* names no pattern matches, and names in which two schemes meet
OtherNames ==
    {"", "junk.fits", "test.txt", "ESA 1000eV.fits", "data/ACI ESA 1000eV240922-190315.fits",
     "data.fits/ACI ESA Dark 240922", "ACI ESA 1000eV ACI ESA Dark 240922.fits",
     "ACI ESA Dark 240922 ACI ESA 1000eV.fits", "ACI ESA RAMP UP ACI ESA 5keV.fits",
     "ACI_ESA_Rotating_Beam-1000eV ACI ESA 5keV.map",
     "ACI ESA 5keV ACI ESA 912V 5KEV BEAM.phd",
     "ACI ESA RAMP UP " \o DetailedHead("62") \o "1000eV" \o DetailedTail("-181", "") \o ".fits"}

Filenames ==
    DetailedNames \cup SimpleEnergyNames \cup VoltageEnergyNames \cup BeamPrepNames
    \cup RampUpNames \cup DarkNames \cup RotatingNames \cup OtherNames

(* The parser taken alone: one call of parse_filename on one filename *)

NoCall == <<"none">>

InitRest ==
    /\ directory = None /\ stat = <<>> /\ files = <<>> /\ call = NoCall /\ groups = <<>>
    /\ data_file = None /\ image = None /\ region = None
    /\ regions = <<>> /\ result = None

InitParse ==
    /\ filename \in Filenames
    /\ params = None /\ exc = None
    /\ pc = "start"
    /\ InitRest

Parse ==
    /\ pc = "start"
    /\ \E r \in {parse_filename(filename)} :
          /\ params' = IF r.raised THEN None ELSE Some(r.value)
          /\ exc' = IF r.raised THEN Some(r.value) ELSE None
    /\ pc' = "parsed"
    /\ UNCHANGED <<filename, directory, stat, files, call, groups, data_file, image, region,
                   regions, result>>

NextParse == Parse

SpecParse == InitParse /\ [][NextParse]_vars

(* Properties of the parser, checked on SpecParse *)

\* the order in which the patterns are to be tried: fully annotated, energy
\* only, voltage + energy BEAM, BEAM PREP, ramp-up, dark frame, rotating
GrammarOrder ==
    <<"detailed", "simple_energy", "voltage_energy", "beam_prep",
      "ramp_up", "dark", "rotating">>

\* the name the patterns are searched in
Stripped(fname) == _clean_filename_for_parsing(basename(fname))

\* pattern g matches somewhere in n
Matches(g, n) == Ends(patterns[g], n, 1..(Len(n) + 1)) # {}

\* the place in GrammarOrder of the first pattern that matches n, 0 if none does
FirstMatch(n) ==
    LET ks == {k \in 1..Len(GrammarOrder) : Matches(GrammarOrder[k], n)}
    IN  IF ks = {} THEN 0 ELSE SetMin(ks)

\* the name of that pattern
Winner(n) == LET k == FirstMatch(n) IN IF k = 0 THEN "none" ELSE GrammarOrder[k]

\* what pattern g captures in n
Groups(g, n) == Get(search(patterns[g], n))

Parsed == pc = "parsed" /\ IsSome(params)

\* C2: parse_filename never raises.  A name no pattern matches gives a record
\* without energy, voltage, angle and timestamp, with the three flags false
\* and test_type "unknown".  A timestamp token that is no calendar date and
\* time leaves datetime_obj absent, and the record still holds the token and
\* every other field the pattern captured.
C2_ParseIsTotal ==
    pc = "parsed" =>
        /\ exc = None
        /\ IsSome(params)
        /\ LET p == Get(params)
               n == Stripped(filename)
               g == Winner(n)
               gd == Groups(g, n)
           IN  /\ g = "none" =>
                     /\ p.beam_energy_value = None /\ p.esa_voltage_value = None
                     /\ p.inner_angle_value = None /\ p.timestamp = None
                     /\ p.datetime_obj = None
                     /\ ~p.is_dark /\ ~p.is_ramp /\ ~p.is_rotating
                     /\ p.test_type = Some("unknown")
               /\ (/\ g # "none" /\ Captured(gd, "timestamp")
                   /\ strptime(Get(gd.timestamp)).raised) =>
                     /\ p.datetime_obj = None
                     /\ p.timestamp = gd.timestamp
                     /\ Captured(gd, "beam_energy") =>
                            p.beam_energy = gd.beam_energy /\ IsSome(p.beam_energy_value)
                     /\ Captured(gd, "esa_voltage") =>
                            p.esa_voltage = gd.esa_voltage /\ IsSome(p.esa_voltage_value)
                     /\ Captured(gd, "sequence") => p.sequence_info = gd.sequence
                     /\ p.is_dark = (g = "dark")
                     /\ p.is_ramp = (g = "ramp_up")

\* a name with month 99 in its timestamp has been parsed: the energy is there
C2_Witness ==
    /\ Parsed
    /\ Get(params).timestamp = Some("249922-190315")
    /\ Get(params).datetime_obj = None
    /\ Get(params).beam_energy_value = Some(RInt(1000))

\* C3: the record is the one the first pattern of GrammarOrder that matches the
\* stripped name produces from the fresh record, and the fresh record when no
\* pattern matches; a pattern later in the order adds nothing to it.
C3_FirstGrammarOnly ==
    pc = "parsed" =>
        LET n == Stripped(filename)
            fresh == ExperimentalParameters(filename, _get_file_type(basename(filename)),
                                            basename(filename))
            g == Winner(n)
            filled == _extract_parameters_from_match(fresh, Groups(g, n), g)
        IN  /\ IsSome(params)
            /\ Get(params) = IF g = "none" THEN _post_process_parameters(fresh)
                             ELSE _post_process_parameters(filled.value)

\* a name that the energy-only and the dark pattern both match has been parsed
C3_Witness ==
    /\ Parsed
    /\ Winner(Stripped(filename)) = "simple_energy"
    /\ Matches("dark", Stripped(filename))
    /\ ~Get(params).is_dark
    /\ IsSome(Get(params).beam_energy_value)

\* the number an energy token denotes in eV
EnergyOf(tok) ==
    {IF u \in KiloUnits THEN RMul(RInt(1000), nt[2]) ELSE nt[2] :
       <<nt, u>> \in {x \in NumberTokens \X (EvUnits \cup KiloUnits) : x[1][1] \o x[2] = tok}}

\* C4: when the matching pattern captures an energy token, beam_energy_value
\* is the number of the token for eV and EV, 1000 times the number for keV,
\* kEV, KeV and KEV, and beam_energy_unit is "eV".
C4_EnergyNormalized ==
    pc = "parsed" =>
        LET n == Stripped(filename)
            g == Winner(n)
            gd == Groups(g, n)
        IN  (g # "none" /\ Captured(gd, "beam_energy")) =>
                /\ IsSome(params)
                /\ Get(params).beam_energy_unit = Some("eV")
                /\ IsSome(Get(params).beam_energy_value)
                /\ EnergyOf(Get(gd.beam_energy)) = {Get(Get(params).beam_energy_value)}

\* a fully annotated name with the token 1.5keV has been parsed
C4_Witness ==
    /\ Parsed
    /\ Winner(Stripped(filename)) = "detailed"
    /\ Get(params).beam_energy = Some("1.5keV")
    /\ Get(params).beam_energy_value = Some(RInt(1500))

\* C5: for an angle token AtoB of a fully annotated name is_angle_range holds,
\* inner_angle_range is (min(A,B), max(A,B)) and inner_angle_value is (A+B)/2;
\* for a token A inner_angle_value is A, is_angle_range is false and there is
\* no range.
C5_AngleRange ==
    pc = "parsed" =>
        LET n == Stripped(filename)
            gd == Groups("detailed", n)
        IN  (Winner(n) = "detailed" /\ Captured(gd, "inner_angle")) =>
                /\ IsSome(params)
                /\ \E a \in AngleNumbers :
                      \/ Get(gd.inner_angle) = a[1]
                      \/ \E b \in AngleNumbers : Get(gd.inner_angle) = a[1] \o "to" \o b[1]
                /\ \A a \in AngleNumbers :
                      /\ Get(gd.inner_angle) = a[1] =>
                            /\ Get(params).inner_angle_value = Some(RInt(a[2]))
                            /\ ~Get(params).is_angle_range
                            /\ Get(params).inner_angle_range = None
                      /\ \A b \in AngleNumbers :
                            Get(gd.inner_angle) = a[1] \o "to" \o b[1] =>
                                /\ Get(params).is_angle_range
                                /\ Get(params).inner_angle_range =
                                       Some(<<RInt(IF a[2] <= b[2] THEN a[2] ELSE b[2]),
                                              RInt(IF a[2] <= b[2] THEN b[2] ELSE a[2])>>)
                                /\ Get(params).inner_angle_value = Some(Rat(a[2] + b[2], 2))

\* the name with the angle token 84to-118 has been parsed
C5_Witness ==
    /\ Parsed
    /\ Get(params).inner_angle = Some("84to-118")
    /\ Get(params).is_angle_range
    /\ Get(params).inner_angle_range = Some(<<RInt(-118), RInt(84)>>)
    /\ Get(params).inner_angle_value = Some(RInt(-17))

\* the classification by priority, from the flags and the values present
Classified(p) ==
    IF p.is_dark THEN "dark"
    ELSE IF p.is_ramp THEN "ramp_up"
    ELSE IF p.is_rotating THEN "rotating"
    ELSE IF IsSome(p.beam_energy_value) /\ IsSome(p.esa_voltage_value) THEN "voltage_sweep"
    ELSE IF IsSome(p.beam_energy_value) THEN "energy_test"
    ELSE "unknown"

\* C6: is_dark, is_ramp and is_rotating hold exactly when the matching pattern
\* is the dark, the ramp-up and the rotating one; test_type follows the
\* priority dark, ramp_up, rotating, voltage_sweep (energy and voltage
\* present), energy_test (energy present), unknown; and deriving test_type
\* again from the parsed record leaves the record as it is.
C6_TestTypePriority ==
    pc = "parsed" =>
        /\ IsSome(params)
        /\ LET p == Get(params)
               g == Winner(Stripped(filename))
           IN  /\ p.is_dark = (g = "dark")
               /\ p.is_ramp = (g = "ramp_up")
               /\ p.is_rotating = (g = "rotating")
               /\ p.test_type = Some(Classified(p))
               /\ _post_process_parameters(p) = p

\* a rotating name that carries an energy and a voltage has been parsed
C6_Witness ==
    /\ Parsed
    /\ Get(params).is_rotating
    /\ IsSome(Get(params).beam_energy_value)
    /\ IsSome(Get(params).esa_voltage_value)
    /\ Get(params).test_type = Some("rotating")

(* data_model.py: DataFile, ExperimentGroup and DataManager *)

\* attributes of ExperimentalParameters that always hold a value
PlainFields ==
    {"filename", "file_type", "base_name", "is_angle_range", "is_dark", "is_ramp",
     "is_rotating"}

FloatFields ==
    {"beam_energy_value", "esa_voltage_value", "mcp_voltage_value", "inner_angle_value",
     "horizontal_value_num"}

BoolFields == {"is_angle_range", "is_dark", "is_ramp", "is_rotating"}

\* getattr(parameters, name, None)
getattr(p, name) ==
    IF name \notin DOMAIN p THEN None
    ELSE IF name \in PlainFields THEN Some(p[name])
    ELSE p[name]

\* the digits after the point of r / d, for a fraction that ends
RECURSIVE FracDigits(_, _)
FracDigits(r, d) ==
    IF r = 0 THEN "" ELSE ToString((r * 10) \div d) \o FracDigits((r * 10) % d, d)

\* str() of the float x, a fraction that ends, of magnitude below 1e16
str_float(x) ==
    LET a == Abs(x[1])
        frac == FracDigits(a % x[2], x[2])
    IN  (IF x[1] < 0 THEN "-" ELSE "") \o ToString(a \div x[2]) \o "."
        \o (IF frac = "" THEN "0" ELSE frac)

\* str() of the value v of the attribute name (a float, a bool or a string)
str(name, v) ==
    IF name \in FloatFields THEN str_float(v)
    ELSE IF name \in BoolFields THEN (IF v THEN "True" ELSE "False")
    ELSE v

\* the characters of the names in the order of their code points
CodePoints == " -./0123456789ABCDEFGHIJKLMNOPQRSTUVWXYZ_abcdefghijklmnopqrstuvwxyz"

\* a < b for strings
StrLt(a, b) ==
    LET n == IF Len(a) <= Len(b) THEN Len(a) ELSE Len(b)
        ks == {k \in 1..n : CharAt(a, k) # CharAt(b, k)}
    IN  IF ks = {} THEN Len(a) < Len(b)
        ELSE IndexOf(CodePoints, CharAt(a, SetMin(ks)))
             < IndexOf(CodePoints, CharAt(b, SetMin(ks)))

\* a < b for two values of the attribute name
ValueLt(name, a, b) ==
    IF name \in FloatFields THEN RLt(a, b)
    ELSE IF name \in BoolFields THEN ~a /\ b
    ELSE StrLt(a, b)

\* sorted(list(S)) for a set S of values of the attribute name
RECURSIVE sorted(_, _)
sorted(S, name) ==
    IF S = {} THEN <<>>
    ELSE LET m == CHOOSE x \in S : \A y \in S \ {x} : ValueLt(name, x, y)
         IN  <<m>> \o sorted(S \ {m}, name)

\* sep.join(parts)
RECURSIVE Join(_, _)
Join(parts, sep) ==
    IF parts = <<>> THEN ""
    ELSE IF Len(parts) = 1 THEN parts[1]
    ELSE parts[1] \o sep \o Join(Tail(parts), sep)

\* the keys of a dict filled in the order of names
RECURSIVE DictKeys(_)
DictKeys(names) ==
    IF names = <<>> THEN <<>>
    ELSE LET rest == DictKeys(SubSeq(names, 1, Len(names) - 1))
             last == names[Len(names)]
         IN  IF \E i \in 1..Len(rest) : rest[i] = last THEN rest ELSE Append(rest, last)

\* DataFile(filepath, parameters, file_type) for a file that exists;
\* "st_size" stands for the number os.path.getsize returns
DataFile(filepath, parameters, file_type) ==
    [filepath |-> filepath, parameters |-> parameters, file_type |-> file_type,
     file_size |-> Some("st_size"), fits_data |-> None, phd_data |-> None,
     is_loaded |-> FALSE, has_errors |-> FALSE, error_messages |-> <<>>]

\* a DataFile for a path that does not exist, marked without a message
MissingDataFile_silent(filepath, parameters, file_type) ==
    [DataFile(filepath, parameters, file_type) EXCEPT !.file_size = None, !.has_errors = TRUE]

\* DataFile(filepath, parameters, file_type) for a path that does not exist
MissingDataFile(filepath, parameters, file_type) ==
    [DataFile(filepath, parameters, file_type)
        EXCEPT !.file_size = None,
               !.has_errors = TRUE,
               !.error_messages = <<"File not found: " \o filepath>>]

ExperimentGroup(name, description, common_parameters) ==
    [name |-> name, description |-> description, files |-> <<>>,
     common_parameters |-> common_parameters, varying_parameters |-> <<>>]

get_parameter_values(group, parameter) ==
    sorted({Get(v) : v \in {getattr(group.files[i].parameters, parameter) :
                              i \in 1..Len(group.files)} \ {None}},
           parameter)

data_directory == "data"

FileTypes == <<"fits", "map", "phd">>

\* a glob that lists every entry of the directory
Hits_unfiltered(listing, file_type) == listing

\* the entries of listing, in its order, that "*." + file_type matches: the
\* match is case-sensitive and a leading dot hides an entry
Hits(listing, file_type) ==
    SelectSeq(listing, LAMBDA n : EndsWith(n, "." \o file_type) /\ ~StartsWithAt(n, 1, "."))

PathsOf(hits) == [i \in 1..Len(hits) |-> data_directory \o "/" \o hits[i]]

\* glob.glob(str(data_directory / ("*." + file_type))) on a directory whose
\* entries are listed in the order of listing
glob(listing, file_type) == PathsOf(Hits(listing, file_type))

\* what the file system answers for filepath: "file" for a file that is
\* there, "dangling" for an entry os.path.exists denies (a link to nothing),
\* "vanishing" for one that is gone when os.path.getsize asks
os_stat(st, filepath) == IF filepath \in DOMAIN st THEN st[filepath] ELSE "file"

\* DataFile(filepath=..., parameters=..., file_type=...) with __post_init__
NewDataFile(filepath, parameters, file_type, answer) ==
    CASE answer = "vanishing" -> Raise("OSError")
      [] answer = "dangling" -> Ok(MissingDataFile(filepath, parameters, file_type))
      [] OTHER -> Ok(DataFile(filepath, parameters, file_type))

\* the try block: r is what parse_filename(filepath) did
TryFile(filepath, r, file_type, answer) ==
    IF r.raised THEN r ELSE NewDataFile(filepath, r.value, file_type, answer)

\* the body of the loop over file_paths: t is what the try block did; a file
\* whose processing raises is logged and skipped
AddFile(fs, t) == IF t.raised THEN fs ELSE Append(fs, t.value)

\* the loop over file_paths from the i-th path on
RECURSIVE DiscoverPaths(_, _, _, _, _)
DiscoverPaths(fs, file_paths, file_type, i, st) ==
    IF i > Len(file_paths) THEN fs
    ELSE DiscoverPaths(AddFile(fs, TryFile(file_paths[i], parse_filename(file_paths[i]),
                                           file_type, os_stat(st, file_paths[i]))),
                       file_paths, file_type, i + 1, st)

\* the loop over self.file_patterns from the k-th file type on
RECURSIVE DiscoverTypes(_, _, _, _)
DiscoverTypes(fs, listing, k, st) ==
    IF k > Len(FileTypes) THEN fs
    ELSE DiscoverTypes(DiscoverPaths(fs, glob(listing, FileTypes[k]), FileTypes[k], 1, st),
                       listing, k + 1, st)

\* dir: None when the data directory does not exist, else its listing
discover_files(dir, st) ==
    IF dir = None THEN <<>> ELSE DiscoverTypes(<<>>, Get(dir), 1, st)

\* groups[key].add_file(file) of group_files_by_parameter, after groups[key] is
\* made if key is new; the name of a group is parameter + "_" + key
AddToGroup(gs, file, parameter, param_value) ==
    IF \E j \in 1..Len(gs) : gs[j].name = parameter \o "_" \o str(parameter, Get(param_value))
    THEN [j \in 1..Len(gs) |->
             IF gs[j].name = parameter \o "_" \o str(parameter, Get(param_value))
             THEN [gs[j] EXCEPT !.files = Append(@, file)]
             ELSE gs[j]]
    ELSE Append(gs, [ExperimentGroup(parameter \o "_" \o str(parameter, Get(param_value)),
                                     "Files with " \o parameter \o " = "
                                        \o str(parameter, Get(param_value)),
                                     [p \in {parameter} |-> param_value])
                        EXCEPT !.files = <<file>>])

\* the body of the loop of group_files_by_parameter over self.files
GroupFile(gs, file, parameter, param_value) ==
    IF param_value # None THEN AddToGroup(gs, file, parameter, param_value) ELSE gs

\* the loop of group_files_by_parameter over self.files from the i-th file on
RECURSIVE ParameterLoop(_, _, _, _)
ParameterLoop(fs, parameter, i, gs) ==
    IF i > Len(fs) THEN gs
    ELSE ParameterLoop(fs, parameter, i + 1,
                       GroupFile(gs, fs[i], parameter, getattr(fs[i].parameters, parameter)))

\* a grouping that returns every group, whatever its size
group_files_by_parameter_unfiltered(fs, parameter, min_group_size) ==
    ParameterLoop(fs, parameter, 1, <<>>)

group_files_by_parameter(fs, parameter, min_group_size) ==
    SelectSeq(ParameterLoop(fs, parameter, 1, <<>>),
              LAMBDA g : Len(g.files) >= min_group_size)

\* f"{param}_{param_value}" or f"{param}_None"
KeyPart(param, param_value) ==
    IF param_value # None THEN param \o "_" \o str(param, Get(param_value))
    ELSE param \o "_None"

\* f"{p}={v}" for an item of param_dict
DescriptionPart(p, v) ==
    p \o "=" \o (IF v # None THEN str(p, Get(v)) ELSE "None")

\* "_".join(key_parts)
KeyOf(file, parameters) ==
    Join([k \in 1..Len(parameters) |->
             KeyPart(parameters[k], getattr(file.parameters, parameters[k]))], "_")

\* the description built from param_dict, whose keys are keys
DescriptionOf(file, keys) ==
    "Files with "
      \o Join([k \in 1..Len(keys) |->
                  DescriptionPart(keys[k], getattr(file.parameters, keys[k]))], ", ")

\* param_dict
ParamDict(file, parameters) ==
    [p \in {parameters[k] : k \in 1..Len(parameters)} |-> getattr(file.parameters, p)]

\* groups[key].add_file(file), after groups[key] is made if key is new; gs holds
\* the groups in the order in which their keys came up
AddToGroups(gs, file, key, parameters) ==
    IF \E j \in 1..Len(gs) : gs[j].name = key
    THEN [j \in 1..Len(gs) |->
             IF gs[j].name = key THEN [gs[j] EXCEPT !.files = Append(@, file)] ELSE gs[j]]
    ELSE Append(gs, [ExperimentGroup(key, DescriptionOf(file, DictKeys(parameters)),
                                     ParamDict(file, parameters))
                        EXCEPT !.files = <<file>>])

\* the loop over self.files from the i-th file on
RECURSIVE GroupLoop(_, _, _, _)
GroupLoop(fs, parameters, i, gs) ==
    IF i > Len(fs) THEN gs
    ELSE IF parameters = <<>> THEN GroupLoop(fs, parameters, i + 1, gs)
    ELSE GroupLoop(fs, parameters, i + 1,
                   AddToGroups(gs, fs[i], KeyOf(fs[i], parameters), parameters))

group_files_by_multiple_parameters(fs, parameters, min_group_size) ==
    SelectSeq(GroupLoop(fs, parameters, 1, <<>>),
              LAMBDA g : Len(g.files) >= min_group_size)

\* the kept groups, each with varying_parameters set and its description extended
Tagged(kept, varying_parameter) ==
    [i \in 1..Len(kept) |->
        [kept[i] EXCEPT !.varying_parameters = <<varying_parameter>>,
                        !.description = @ \o ", varying " \o varying_parameter]]

\* find_comparison_sets keeping every group that has a value at all
find_comparison_sets_any_value(fs, fixed_parameters, varying_parameter) ==
    Tagged(SelectSeq(group_files_by_multiple_parameters(fs, fixed_parameters, 2),
                     LAMBDA g : Len(get_parameter_values(g, varying_parameter)) > 0),
           varying_parameter)

find_comparison_sets(fs, fixed_parameters, varying_parameter) ==
    Tagged(SelectSeq(group_files_by_multiple_parameters(fs, fixed_parameters, 2),
                     LAMBDA g : Len(get_parameter_values(g, varying_parameter)) > 1),
           varying_parameter)

(* The catalog: a data directory is discovered, then one grouping or one *)
(* search for comparison sets is made on it.                             *)

\* the names a data directory is filled from
CatalogNames ==
    {"ACI ESA 912V 1000eV BEAM.fits", "ACI ESA 181V 1000eV BEAM.map",
     "ACI ESA 912V 1keV BEAM.phd", "ACI ESA 1000eV.fits",
     "ACI ESA 181V 5keV BEAM.fits", "ACI ESA Dark 240922.fits"}

MaxFiles == 3

\* the listings of a directory: up to MaxFiles distinct names in any order
Listings ==
    UNION {{l \in [1..n -> CatalogNames] : \A i, j \in 1..n : l[i] = l[j] => i = j} :
             n \in 0..MaxFiles}

FixedLists ==
    {<<>>, <<"beam_energy_value">>, <<"esa_voltage_value">>,
     <<"beam_energy_value", "file_type">>, <<"test_type", "beam_energy_value">>,
     <<"esa_voltage_value", "beam_energy_value">>, <<"wave_type">>,
     <<"no_such_attribute">>}

VaryingNames == {"esa_voltage_value", "beam_energy_value", "test_type", "no_such_attribute"}

InitCatalog ==
    /\ directory \in {None} \cup {Some(l) : l \in Listings}
    /\ stat = <<>>
    /\ files = <<>> /\ call = NoCall /\ groups = <<>>
    /\ pc = "start"
    /\ filename = "" /\ params = None /\ exc = None
    /\ data_file = None /\ image = None /\ region = None
    /\ regions = <<>> /\ result = None

Discover ==
    /\ pc = "start"
    /\ files' = discover_files(directory, stat)
    /\ pc' = "discovered"
    /\ UNCHANGED <<filename, params, exc, directory, stat, call, groups, data_file, image,
                   region, regions, result>>

GroupByParameters ==
    /\ pc = "discovered"
    /\ \E parameters \in FixedLists, min_group_size \in {1, 2, 3} :
          /\ call' = <<"group_files_by_multiple_parameters", parameters, min_group_size>>
          /\ groups' = group_files_by_multiple_parameters(files, parameters, min_group_size)
    /\ pc' = "called"
    /\ UNCHANGED <<filename, params, exc, directory, stat, files, data_file, image, region,
                   regions, result>>

FindComparisonSets ==
    /\ pc = "discovered"
    /\ \E fixed_parameters \in FixedLists, varying_parameter \in VaryingNames :
          /\ call' = <<"find_comparison_sets", fixed_parameters, varying_parameter>>
          /\ groups' = find_comparison_sets(files, fixed_parameters, varying_parameter)
    /\ pc' = "called"
    /\ UNCHANGED <<filename, params, exc, directory, stat, files, data_file, image, region,
                   regions, result>>

NextCatalog == Discover \/ GroupByParameters \/ FindComparisonSets

SpecCatalog == InitCatalog /\ [][NextCatalog]_vars

(* Properties of the catalog, checked on SpecCatalog *)

\* the values of the attribute name that occur among the files of group g
ValuesIn(g, name) ==
    {getattr(g.files[i].parameters, name) : i \in 1..Len(g.files)} \ {None}

\* C1: find_comparison_sets(fixed, varying) returns the groups of
\* group_files_by_multiple_parameters(fixed, 2) among whose files at least two
\* distinct values of varying occur, in their order; each returned group has
\* at least 2 files, at least 2 distinct values of varying, and
\* varying_parameters = [varying].
C1_ComparisonSets ==
    call[1] = "find_comparison_sets" =>
        LET varying == call[3]
            base == group_files_by_multiple_parameters(files, call[2], 2)
            keep == SelectSeq(base, LAMBDA g : Cardinality(ValuesIn(g, varying)) >= 2)
        IN  /\ Len(groups) = Len(keep)
            /\ \A i \in 1..Len(groups) :
                  /\ groups[i].name = keep[i].name
                  /\ groups[i].files = keep[i].files
                  /\ groups[i].common_parameters = keep[i].common_parameters
                  /\ groups[i].varying_parameters = <<varying>>
                  /\ Len(groups[i].files) >= 2
                  /\ Cardinality(ValuesIn(groups[i], varying)) >= 2

\* three files of one energy, two of them with different voltages, searched
\* for sets of fixed energy and varying voltage: one set is returned
C1_Witness ==
    /\ call = <<"find_comparison_sets", <<"beam_energy_value">>, "esa_voltage_value">>
    /\ Len(files) = 3
    /\ Len(groups) = 1
    /\ Len(groups[1].files) = 3
    /\ Cardinality(ValuesIn(groups[1], "esa_voltage_value")) = 2

(* fits_handler.py, data_model.py: loading the content of a file on demand *)

\* the FitsData read_fits_file returns: the array of the HDU if it holds one
\* (a sequence of rows of numbers) and the error state of the read
FitsData(data, has_errors) ==
    [data |-> data, has_errors |-> has_errors,
     error_messages |-> IF has_errors THEN <<"Error reading FITS file">> ELSE <<>>]

\* read_legacy_map_file on a file that holds fewer than 1024 * 1024 values
read_legacy_map_file(fd) == None

\* the end of a try block that marks the file loaded without taking over the
\* errors of the FitsData
FinishLoad_unrecorded(df) ==
    [data_file |-> [df EXCEPT !.is_loaded = TRUE],
     value |-> ~(df.has_errors \/ (df.fits_data # None /\ Get(df.fits_data).has_errors))]

\* the end of a try block that also writes test_type anew
FinishLoad_reclassified(df) ==
    [data_file |-> [df EXCEPT !.is_loaded = TRUE, !.parameters.test_type = Some("unknown")],
     value |-> ~df.has_errors]

\* the end of the try block: the errors of the FitsData go to the file
FinishLoad(df) ==
    IF df.fits_data # None /\ Get(df.fits_data).has_errors
    THEN [data_file |-> [df EXCEPT !.has_errors = TRUE,
                                   !.error_messages = @ \o Get(df.fits_data).error_messages,
                                   !.is_loaded = TRUE],
          value |-> FALSE]
    ELSE [data_file |-> [df EXCEPT !.is_loaded = TRUE], value |-> ~df.has_errors]

\* the try block and its handler, where reading the file yields fd (for a PHD
\* file: fails if fd.has_errors)
TryLoad(df, fd) ==
    IF df.file_type = "fits" THEN FinishLoad([df EXCEPT !.fits_data = Some(fd)])
    ELSE IF df.file_type = "map"
    THEN IF read_legacy_map_file(fd) # None
         THEN FinishLoad([df EXCEPT !.fits_data =
                                        Some(FitsData(read_legacy_map_file(fd), FALSE))])
         ELSE FinishLoad([df EXCEPT !.fits_data = Some(fd)])
    ELSE IF df.file_type = "phd"
    THEN IF fd.has_errors
         THEN [data_file |-> [df EXCEPT !.error_messages =
                                            Append(@, "Error loading data from " \o df.filepath),
                                        !.has_errors = TRUE],
               value |-> FALSE]
         ELSE FinishLoad([df EXCEPT !.phd_data = Some("adc_bins, counts")])
    ELSE FinishLoad(df)

\* load_file_data reading the file whatever the flags of the entity say
load_file_data_always(df, fd) == TryLoad(df, fd)

\* load_file_data(data_file): the entity as left and the value returned
load_file_data(df, fd) ==
    IF df.is_loaded \/ df.has_errors THEN [data_file |-> df, value |-> ~df.has_errors]
    ELSE TryLoad(df, fd)

(* numpy on sequences of exact numbers *)

RECURSIVE SumFrom(_, _, _)
SumFrom(xs, i, acc) == IF i > Len(xs) THEN acc ELSE SumFrom(xs, i + 1, RAdd(acc, xs[i]))

np_sum(xs) == SumFrom(xs, 1, RZero)

\* np.mean of a non-empty array
np_mean(xs) == RDiv(np_sum(xs), RInt(Len(xs)))

\* np.min and np.max of a non-empty array
np_min(xs) == CHOOSE m \in {xs[k] : k \in 1..Len(xs)} : \A k \in 1..Len(xs) : RLe(m, xs[k])

np_max(xs) == CHOOSE m \in {xs[k] : k \in 1..Len(xs)} : \A k \in 1..Len(xs) : RLe(xs[k], m)

\* the mean of the squared distances of xs from m
MeanSquare(xs, m) ==
    np_mean([k \in 1..Len(xs) |-> RMul(RSub(xs[k], m), RSub(xs[k], m))])

\* np.std: the square root of squared; of an empty array it is nan (and a warning)
np_std(xs) ==
    IF Len(xs) = 0 THEN [nan |-> TRUE, squared |-> RZero]
    ELSE [nan |-> FALSE, squared |-> MeanSquare(xs, np_mean(xs))]

\* np.average(a, weights=weights)
np_average(a, weights) ==
    RDiv(np_sum([k \in 1..Len(a) |-> RMul(a[k], weights[k])]), np_sum(weights))

\* mean / (std + 1e-10): nan if std is nan, else the quotient, kept as its terms
OverStd(mean, std) == [nan |-> std.nan, mean |-> mean, std |-> std]

(* esa_analysis.py: the impact region detector *)

\* 0.05
noise_threshold == Rat(5, 100)

min_region_size == 10

ImpactRegionFields ==
    {"filename", "beam_energy", "esa_voltage", "rotation_angle", "centroid_x", "centroid_y",
     "peak_intensity", "total_intensity", "region_area", "min_x", "max_x", "min_y", "max_y",
     "signal_to_noise", "data_density", "rotation_angle_range", "is_angle_range"}

\* ImpactRegion(...) called with the keyword arguments kw
ImpactRegion(kw) == [f \in ImpactRegionFields |-> kw[f]]

\* the pixels of the array a in row-major order, each with its indices
Pixels(a) ==
    [k \in 1..(Len(a) * Len(a[1])) |->
        [y |-> (k - 1) \div Len(a[1]), x |-> (k - 1) % Len(a[1]),
         v |-> RInt(a[((k - 1) \div Len(a[1])) + 1][((k - 1) % Len(a[1])) + 1])]]

ValuesOf(pixels) == [k \in 1..Len(pixels) |-> pixels[k].v]

XCoords(pixels) == [k \in 1..Len(pixels) |-> RInt(pixels[k].x)]

YCoords(pixels) == [k \in 1..Len(pixels) |-> RInt(pixels[k].y)]

\* the raw data taken as they are, without the division by the maximum
Normalized_raw(raw_data, maximum) == raw_data

\* raw_data / maximum
Normalized(raw_data, maximum) ==
    [k \in 1..Len(raw_data) |-> [raw_data[k] EXCEPT !.v = RDiv(@, maximum)]]

\* value or 0.0
OrZero(value) == IF value # None /\ Get(value)[1] # 0 THEN Get(value) ELSE RZero

\* from np.where on: signal holds the pixels of the mask, noise the others
Characterize(df, normalized, peak_value, signal, noise) ==
    IF Len(signal) = 0 THEN None
    ELSE Some(ImpactRegion(
             [filename |-> basename(df.filepath),
              beam_energy |-> OrZero(df.parameters.beam_energy_value),
              esa_voltage |-> OrZero(df.parameters.esa_voltage_value),
              rotation_angle |-> df.parameters.inner_angle_value,
              rotation_angle_range |-> df.parameters.inner_angle_range,
              is_angle_range |-> df.parameters.is_angle_range,
              centroid_x |-> np_average(XCoords(signal), ValuesOf(signal)),
              centroid_y |-> np_average(YCoords(signal), ValuesOf(signal)),
              peak_intensity |-> peak_value,
              total_intensity |-> np_sum(ValuesOf(signal)),
              region_area |-> Len(signal),
              min_x |-> np_min(XCoords(signal))[1],
              max_x |-> np_max(XCoords(signal))[1],
              min_y |-> np_min(YCoords(signal))[1],
              max_y |-> np_max(YCoords(signal))[1],
              signal_to_noise |-> OverStd(np_mean(ValuesOf(signal)),
                                          np_std(ValuesOf(noise))),
              data_density |-> Rat(Len(signal), Len(normalized))]))

\* Sized rejecting also a region of exactly min_region_size pixels
Sized_inclusive(df, normalized, peak_value, signal, noise) ==
    IF Len(signal) <= min_region_size THEN None
    ELSE Characterize(df, normalized, peak_value, signal, noise)

\* from the test of the number of significant pixels on
Sized(df, normalized, peak_value, signal, noise) ==
    IF Len(signal) < min_region_size THEN None
    ELSE Characterize(df, normalized, peak_value, signal, noise)

\* significant_mask = normalized_data > threshold
Thresholded(df, normalized, peak_value, threshold) ==
    Sized(df, normalized, peak_value,
          SelectSeq(normalized, LAMBDA p : RLt(threshold, p.v)),
          SelectSeq(normalized, LAMBDA p : ~RLt(threshold, p.v)))

Peaked(df, normalized, peak_value) ==
    Thresholded(df, normalized, peak_value, RMul(peak_value, noise_threshold))

\* from the local normalization on
Analyzed(df, raw_data, maximum) ==
    IF RLt(RZero, maximum)
    THEN Peaked(df, Normalized(raw_data, maximum),
                np_max(ValuesOf(Normalized(raw_data, maximum))))
    ELSE None

\* l: what load_file_data did
AfterLoad(l) ==
    IF ~l.value THEN [data_file |-> l.data_file, region |-> None]
    ELSE IF l.data_file.fits_data = None \/ Get(l.data_file.fits_data).data = None
    THEN [data_file |-> l.data_file, region |-> None]
    ELSE [data_file |-> l.data_file,
          region |-> Analyzed(l.data_file, Pixels(Get(Get(l.data_file.fits_data).data)),
                              np_max(ValuesOf(Pixels(Get(Get(l.data_file.fits_data).data)))))]

\* _analyze_single_impact_region(data_file) where reading the file yields fd;
\* returns the file as left and the Optional region
_analyze_single_impact_region(df, fd) == AfterLoad(load_file_data(df, fd))

(* The detector: one file whose content is read and analysed *)

\* the shape of the arrays
Rows == 3

Cols == 4

PixelValues == {-1, 0, 1, 20}

\* the first pixel can also lie between the threshold and the maximum
CornerValues == PixelValues \cup {2}

\* an array of background bg with a rectangle of value v and a first pixel
\* of value c
ArrayOf(bg, y1, y2, x1, x2, v, c) ==
    [y \in 1..Rows |->
        [x \in 1..Cols |->
            IF <<y, x>> = <<1, 1>> THEN c
            ELSE IF y1 <= y /\ y <= y2 /\ x1 <= x /\ x <= x2 THEN v
            ELSE bg]]

Arrays ==
    {ArrayOf(bg, y1, y2, x1, x2, v, c) :
        bg \in PixelValues, v \in PixelValues, c \in CornerValues,
        y1 \in 1..Rows, y2 \in 1..Rows, x1 \in 1..Cols, x2 \in 1..Cols}

\* what reading a file can yield: an array, no data in the HDU, or an error
Contents ==
    {FitsData(Some(a), FALSE) : a \in Arrays}
      \cup {FitsData(None, FALSE), FitsData(None, TRUE)}

DetectNames ==
    {"ACI ESA 912V 1000eV BEAM.fits", "ACI ESA Dark 240922.map",
     "ACI ESA 912V 1keV BEAM.phd"}

\* the file of the name n as discover_files makes it
Discovered(n) == discover_files(Some(<<n>>), <<>>)[1]

InitDetect ==
    /\ data_file \in {Some(Discovered(n)) : n \in DetectNames}
    /\ image \in Contents
    /\ region = None /\ regions = <<>> /\ result = None
    /\ directory = None /\ stat = <<>> /\ files = <<>> /\ call = NoCall /\ groups = <<>>
    /\ filename = "" /\ params = None /\ exc = None
    /\ pc = "start"

Detect ==
    /\ pc = "start"
    /\ \E r \in {_analyze_single_impact_region(Get(data_file), image)} :
          /\ data_file' = Some(r.data_file)
          /\ region' = r.region
    /\ pc' = "detected"
    /\ UNCHANGED <<filename, params, exc, directory, stat, files, call, groups, image,
                   regions, result>>

NextDetect == Detect

SpecDetect == InitDetect /\ [][NextDetect]_vars

(* Properties of the detector, checked on SpecDetect *)

\* an array was read for the file
HasArray ==
    /\ Get(data_file).file_type \in {"fits", "map"}
    /\ ~image.has_errors
    /\ image.data # None

\* the values of the array that was read
ArrayValues == {Get(image.data)[y][x] : y \in 1..Rows, x \in 1..Cols}

\* the pixels strictly greater than 0.05 times the maximum
AboveThreshold ==
    {yx \in (1..Rows) \X (1..Cols) :
        20 * Get(image.data)[yx[1]][yx[2]] > SetMax(ArrayValues)}

\* C9: the detector returns no region exactly when the maximum of the image is
\* not positive or fewer than min_region_size = 10 pixels are strictly greater
\* than 0.05 times the maximum; a returned region has region_area >= 10.
C9_AbsentExactly ==
    (pc = "detected" /\ HasArray) =>
        /\ region = None <=>
              (SetMax(ArrayValues) <= 0 \/ Cardinality(AboveThreshold) < 10)
        /\ region # None =>
              /\ Get(region).region_area >= 10
              /\ Get(region).region_area = Cardinality(AboveThreshold)

\* an image with exactly 10 pixels above the threshold gave a region, two
\* pixels sit exactly on the threshold
C9_Witness ==
    /\ pc = "detected" /\ HasArray
    /\ region # None
    /\ Get(region).region_area = 10
    /\ Cardinality({yx \in (1..Rows) \X (1..Cols) :
                      20 * Get(image.data)[yx[1]][yx[2]] = SetMax(ArrayValues)}) = 2

\* C10: every region returned has 0 <= data_density <= 1 and a defined
\* signal_to_noise >= 0, also when no pixel is left outside the signal set.
C10_DensityAndSnr ==
    (pc = "detected" /\ region # None) =>
        /\ RLe(RZero, Get(region).data_density)
        /\ RLe(Get(region).data_density, RInt(1))
        /\ ~Get(region).signal_to_noise.nan
        /\ RLe(RZero, Get(region).signal_to_noise.mean)

(* esa_analysis.py: the k-factor estimator *)

detector_center_x == 512

ESAMeasurement(impact_region, theoretical_deflection, measured_deflection) ==
    [impact_region |-> impact_region, theoretical_deflection |-> theoretical_deflection,
     measured_deflection |-> measured_deflection, k_factor_estimate |-> None]

\* calculate_k_factor dividing by the voltage as it is
calculate_k_factor_signed(m) ==
    IF m.impact_region.esa_voltage[1] # 0 /\ m.impact_region.beam_energy[1] # 0
    THEN [measurement |->
              [m EXCEPT !.k_factor_estimate =
                            Some(RDiv(m.impact_region.beam_energy,
                                      m.impact_region.esa_voltage))],
          value |-> Some(RDiv(m.impact_region.beam_energy, m.impact_region.esa_voltage))]
    ELSE [measurement |-> m, value |-> m.k_factor_estimate]

\* ESAMeasurement.calculate_k_factor: the measurement as left and the value returned
calculate_k_factor(m) ==
    IF m.impact_region.esa_voltage[1] # 0 /\ m.impact_region.beam_energy[1] # 0
    THEN [measurement |->
              [m EXCEPT !.k_factor_estimate =
                            Some(RDiv(m.impact_region.beam_energy,
                                      RAbs(m.impact_region.esa_voltage)))],
          value |-> Some(RDiv(m.impact_region.beam_energy,
                              RAbs(m.impact_region.esa_voltage)))]
    ELSE [measurement |-> m, value |-> m.k_factor_estimate]

_calculate_theoretical_deflection(beam_energy, esa_voltage) ==
    IF RLt(RZero, beam_energy) THEN RDiv(esa_voltage, beam_energy) ELSE RZero

\* the log line for a region collected over an angle range: formatting a
\* rotation_angle of None with .1f raises
LogAngleRange(measurements, r) ==
    IF r.is_angle_range /\ r.rotation_angle_range # None /\ r.rotation_angle = None
    THEN Raise("TypeError")
    ELSE Ok(measurements)

\* the body of the loop over regions
AddMeasurement(measurements, r) ==
    IF r.esa_voltage[1] # 0 /\ r.beam_energy[1] # 0
    THEN LogAngleRange(
             Append(measurements,
                    ESAMeasurement(r,
                                   _calculate_theoretical_deflection(r.beam_energy,
                                                                     r.esa_voltage),
                                   RDiv(RSub(r.centroid_x, RInt(detector_center_x)),
                                        RInt(detector_center_x)))),
             r)
    ELSE Ok(measurements)

\* the loop over regions from the i-th region on; m: the measurements so far,
\* or what was raised
RECURSIVE MeasureFrom(_, _, _)
MeasureFrom(rs, i, m) ==
    IF i > Len(rs) \/ m.raised THEN m
    ELSE MeasureFrom(rs, i + 1, AddMeasurement(m.value, rs[i]))

\* the body of the loop over measurements; c: what calculate_k_factor did
AddKFactor(acc, c) ==
    [measurements |-> Append(acc.measurements, c.measurement),
     k_factors |-> IF c.value # None THEN Append(acc.k_factors, Get(c.value))
                   ELSE acc.k_factors]

\* the loop over measurements from the i-th measurement on
RECURSIVE KFactorsFrom(_, _, _)
KFactorsFrom(ms, i, acc) ==
    IF i > Len(ms) THEN acc
    ELSE KFactorsFrom(ms, i + 1, AddKFactor(acc, calculate_k_factor(ms[i])))

\* xs with x put before its first element that is greater
RECURSIVE Insert(_, _)
Insert(xs, x) ==
    IF xs = <<>> THEN <<x>>
    ELSE IF RLt(x, xs[1]) THEN <<x>> \o xs
    ELSE <<xs[1]>> \o Insert(Tail(xs), x)

RECURSIVE SortFrom(_, _, _)
SortFrom(xs, i, acc) ==
    IF i > Len(xs) THEN acc ELSE SortFrom(xs, i + 1, Insert(acc, xs[i]))

\* the middle of the sorted array s, non-empty
MiddleOf(s) ==
    IF Len(s) % 2 = 1 THEN s[(Len(s) + 1) \div 2]
    ELSE RDiv(RAdd(s[Len(s) \div 2], s[(Len(s) \div 2) + 1]), RInt(2))

np_median(xs) == MiddleOf(SortFrom(xs, 1, <<>>))

\* the statistics taken also of an empty list of k-factors
Statistics_unguarded(acc) ==
    [k_factor_mean |-> IF acc.k_factors = <<>> THEN RZero ELSE np_mean(acc.k_factors),
     k_factor_std |-> np_std(acc.k_factors),
     k_factor_median |-> IF acc.k_factors = <<>> THEN RZero ELSE np_median(acc.k_factors),
     k_factor_range |-> IF acc.k_factors = <<>> THEN <<RZero, RZero>>
                        ELSE <<np_min(acc.k_factors), np_max(acc.k_factors)>>,
     num_measurements |-> Len(acc.k_factors),
     measurements |-> acc.measurements,
     k_factors |-> acc.k_factors]

\* from the second loop on; acc: the measurements and the k-factors it gave
Statistics(acc) ==
    IF acc.k_factors = <<>> THEN [error |-> "Could not calculate any k-factors"]
    ELSE [k_factor_mean |-> np_mean(acc.k_factors),
          k_factor_std |-> np_std(acc.k_factors),
          k_factor_median |-> np_median(acc.k_factors),
          k_factor_range |-> <<np_min(acc.k_factors), np_max(acc.k_factors)>>,
          num_measurements |-> Len(acc.k_factors),
          measurements |-> acc.measurements,
          k_factors |-> acc.k_factors]

\* Estimated without the test for an empty list of measurements
Estimated_unguarded(m) ==
    IF m.raised THEN m
    ELSE Ok(Statistics_unguarded(KFactorsFrom(m.value, 1,
                                              [measurements |-> <<>>, k_factors |-> <<>>])))

\* from the first loop on; m: the measurements, or what was raised
Estimated(m) ==
    IF m.raised THEN m
    ELSE IF m.value = <<>>
    THEN Ok([error |-> "No valid measurements for k-factor estimation"])
    ELSE Ok(Statistics(KFactorsFrom(m.value, 1,
                                    [measurements |-> <<>>, k_factors |-> <<>>])))

estimate_k_factor(rs) == Estimated(MeasureFrom(rs, 1, Ok(<<>>)))

(* The estimator: one call of estimate_k_factor on a list of regions *)

MaxRegions == 3

\* beam energy and ESA voltage of a region, as the detector copies them: 0.0
\* stands for a value the file name did not give
EnergyVoltagePairs ==
    {<<0, 0>>, <<1000, 0>>, <<0, -181>>, <<1000, -181>>, <<5000, -1000>>, <<1000, 250>>}

\* a region of 10 pixels around (cx, 512) on a 1024 x 1024 image
RegionAt(ev, cx, angle, angle_range) ==
    ImpactRegion(
        [filename |-> "ACI ESA.fits", beam_energy |-> RInt(ev[1]),
         esa_voltage |-> RInt(ev[2]), rotation_angle |-> angle,
         rotation_angle_range |-> angle_range, is_angle_range |-> angle_range # None,
         centroid_x |-> RInt(cx), centroid_y |-> RInt(512), peak_intensity |-> RInt(1),
         total_intensity |-> RInt(10), region_area |-> 10,
         min_x |-> cx - 2, max_x |-> cx + 2, min_y |-> 511, max_y |-> 512,
         signal_to_noise |-> OverStd(RInt(1), [nan |-> FALSE, squared |-> RZero]),
         data_density |-> Rat(10, 1024 * 1024)])

\* regions taken at one angle, and regions taken over the range 84to-118,
\* whose rotation_angle is the midpoint
RegionChoices ==
    {RegionAt(ev, 384, None, None) : ev \in EnergyVoltagePairs}
      \cup {RegionAt(ev, 640, Some(RInt(-17)), Some(<<RInt(-118), RInt(84)>>)) :
               ev \in EnergyVoltagePairs}

RegionLists == UNION {[1..n -> RegionChoices] : n \in 0..MaxRegions}

InitEstimate ==
    /\ regions \in RegionLists
    /\ result = None /\ exc = None
    /\ data_file = None /\ image = None /\ region = None
    /\ directory = None /\ stat = <<>> /\ files = <<>> /\ call = NoCall /\ groups = <<>>
    /\ filename = "" /\ params = None
    /\ pc = "start"

Estimate ==
    /\ pc = "start"
    /\ \E r \in {estimate_k_factor(regions)} :
          /\ result' = IF r.raised THEN None ELSE Some(r.value)
          /\ exc' = IF r.raised THEN Some(r.value) ELSE None
    /\ pc' = "estimated"
    /\ UNCHANGED <<filename, params, directory, stat, files, call, groups, data_file, image,
                   region, regions>>

NextEstimate == Estimate

SpecEstimate == InitEstimate /\ [][NextEstimate]_vars

(* Properties of the estimator, checked on SpecEstimate *)

\* the regions with nonzero energy and nonzero voltage, in input order
Paired(rs) == SelectSeq(rs, LAMBDA r : r.beam_energy[1] # 0 /\ r.esa_voltage[1] # 0)

KFactorOf(r) == RDiv(r.beam_energy, RAbs(r.esa_voltage))

\* the arrangements of the list xs
Arrangements(xs) ==
    {[i \in 1..Len(xs) |-> xs[p[i]]] : p \in Permutations(1..Len(xs))}

\* m is the median of the list xs
IsMedian(m, xs) ==
    \E s \in Arrangements(xs) :
        /\ \A i \in 1..(Len(s) - 1) : RLe(s[i], s[i + 1])
        /\ IF Len(s) % 2 = 1 THEN m = s[(Len(s) + 1) \div 2]
           ELSE RAdd(m, m) = RAdd(s[Len(s) \div 2], s[(Len(s) \div 2) + 1])

\* C7: estimate_k_factor builds one measurement, in input order, for each
\* region with nonzero energy and nonzero voltage and none for any other, with
\* k-factor energy / |voltage|, theoretical deflection voltage / energy and
\* measured deflection (centroid_x - 512) / 512; mean, std, median, min, max
\* and num_measurements are taken over exactly these k-factors, so regions
\* that lack energy or voltage do not change the result.
C7_Measurements ==
    (pc = "estimated" /\ Paired(regions) # <<>>) =>
        LET paired == Paired(regions)
            res == Get(result)
            ks == [i \in 1..Len(paired) |-> KFactorOf(paired[i])]
            n == RInt(Len(paired))
        IN  /\ result # None
            /\ Len(res.measurements) = Len(paired)
            /\ \A i \in 1..Len(paired) :
                  /\ res.measurements[i].impact_region = paired[i]
                  /\ res.measurements[i].k_factor_estimate = Some(ks[i])
                  /\ res.measurements[i].theoretical_deflection
                       = RDiv(paired[i].esa_voltage, paired[i].beam_energy)
                  /\ res.measurements[i].measured_deflection
                       = RDiv(RSub(paired[i].centroid_x, RInt(512)), RInt(512))
            /\ res.k_factors = ks
            /\ res.num_measurements = Len(paired)
            /\ RMul(res.k_factor_mean, n) = np_sum(ks)
            /\ ~res.k_factor_std.nan
            /\ RAdd(res.k_factor_std.squared, RMul(res.k_factor_mean, res.k_factor_mean))
                 = RDiv(np_sum([i \in 1..Len(ks) |-> RMul(ks[i], ks[i])]), n)
            /\ IsMedian(res.k_factor_median, ks)
            /\ \E i \in 1..Len(ks) : res.k_factor_range[1] = ks[i]
            /\ \E i \in 1..Len(ks) : res.k_factor_range[2] = ks[i]
            /\ \A i \in 1..Len(ks) :
                  RLe(res.k_factor_range[1], ks[i]) /\ RLe(ks[i], res.k_factor_range[2])
            /\ result = Some(estimate_k_factor(paired).value)

\* 1000 eV at -181 V and 5000 eV at -1000 V with a region without voltage
\* between them: two measurements, of k-factors 1000/181 and 5
C7_Witness ==
    /\ pc = "estimated"
    /\ Len(regions) = 3
    /\ regions[2].esa_voltage = RZero /\ regions[2].beam_energy = RInt(1000)
    /\ result # None
    /\ "error" \notin DOMAIN Get(result)
    /\ Get(result).k_factors = <<Rat(1000, 181), RInt(5)>>

\* C8: estimate_k_factor never raises; with no region of nonzero energy and
\* nonzero voltage (as for the empty list) it returns a result with the single
\* entry "error", otherwise statistics without "error", none of them nan, and
\* num_measurements >= 1.
C8_ErrorValue ==
    pc = "estimated" =>
        /\ exc = None
        /\ result # None
        /\ Paired(regions) = <<>> => DOMAIN Get(result) = {"error"}
        /\ Paired(regions) # <<>> =>
              /\ "error" \notin DOMAIN Get(result)
              /\ Get(result).num_measurements >= 1
              /\ ~Get(result).k_factor_std.nan

\* two regions, neither with both energy and voltage, gave the error value
C8_Witness ==
    /\ pc = "estimated"
    /\ Len(regions) = 2
    /\ Paired(regions) = <<>>
    /\ result # None
    /\ DOMAIN Get(result) = {"error"}

(* esa_analysis.py: batch detection *)

\* the body of the loop over files; r: what _analyze_single_impact_region did
AddRegion(acc, r) ==
    [files |-> Append(acc.files, r.data_file),
     regions |-> IF r.region # None THEN Append(acc.regions, Get(r.region))
                 ELSE acc.regions]

\* the loop over files from the i-th file on; fds[i]: what reading fs[i] yields
RECURSIVE AnalyzeFrom(_, _, _, _)
AnalyzeFrom(fs, fds, i, acc) ==
    IF i > Len(fs) THEN acc
    ELSE AnalyzeFrom(fs, fds, i + 1,
                     AddRegion(acc, _analyze_single_impact_region(fs[i], fds[i])))

\* analyze_impact_regions(files): the files as left and the regions returned
analyze_impact_regions(fs, fds) ==
    AnalyzeFrom(fs, fds, 1, [files |-> <<>>, regions |-> <<>>])

(* The batch: a list of files, each with its content, analysed in one call *)

MaxEntities == 3

\* an array with signal, an all-zero array and one with two lit pixels
SignalArray == ArrayOf(20, 1, 1, 1, 1, 0, 0)

ZeroArray == ArrayOf(0, 1, 1, 1, 1, 0, 0)

SparseArray == ArrayOf(0, 1, 1, 1, 2, 20, 20)

\* files found by discover_files, and a file made for a path that does not exist
BatchFiles ==
    {Discovered(n) : n \in DetectNames}
      \cup {MissingDataFile("data/ACI ESA 5keV.fits",
                            parse_filename("data/ACI ESA 5keV.fits").value, "fits")}

\* what reading a file can yield
BatchContents ==
    {FitsData(Some(SignalArray), FALSE), FitsData(Some(ZeroArray), FALSE),
     FitsData(Some(SparseArray), FALSE), FitsData(None, FALSE), FitsData(None, TRUE)}

\* reading the file f can yield fd: a file that does not exist cannot be read;
\* of the PHD files only one that cannot be read is taken, of the MAP files
\* only one with signal
CanYield(f, fd) ==
    CASE f.has_errors -> fd.has_errors
      [] f.file_type = "phd" -> fd.has_errors
      [] f.file_type = "map" -> fd.data = Some(SignalArray)
      [] OTHER -> TRUE

InitBatch ==
    /\ \E n \in 0..MaxEntities :
          /\ files \in [1..n -> BatchFiles]
          /\ image \in {c \in [1..n -> BatchContents] :
                            \A i \in 1..n : CanYield(files[i], c[i])}
    /\ call = NoCall /\ regions = <<>>
    /\ data_file = None /\ region = None /\ result = None
    /\ directory = None /\ stat = <<>> /\ groups = <<>>
    /\ filename = "" /\ params = None /\ exc = None
    /\ pc = "start"

AnalyzeBatch ==
    /\ pc = "start"
    /\ \E r \in {analyze_impact_regions(files, image)} :
          /\ files' = r.files
          /\ regions' = r.regions
    /\ call' = <<"analyze_impact_regions", files>>
    /\ pc' = "analyzed"
    /\ UNCHANGED <<filename, params, exc, directory, stat, groups, data_file, image, region,
                   result>>

NextBatch == AnalyzeBatch

SpecBatch == InitBatch /\ [][NextBatch]_vars

(* Properties of batch detection, checked on SpecBatch *)

\* the pixels of the array a strictly greater than 0.05 times its maximum
PixelsOver(a, maximum) ==
    {yx \in (1..Rows) \X (1..Cols) : 20 * a[yx[1]][yx[2]] > maximum}

SignalPixels(a) == PixelsOver(a, SetMax({a[y][x] : y \in 1..Rows, x \in 1..Cols}))

\* the content of the file f, whose reading yields fd, fails to load or f has
\* errors already
LoadFails(f, fd) ==
    \/ f.has_errors
    \/ ~f.is_loaded /\ f.file_type \in {"fits", "map", "phd"} /\ fd.has_errors

\* an array loads for f that holds at least min_region_size signal pixels
HasSignal(f, fd) ==
    /\ ~LoadFails(f, fd)
    /\ f.file_type \in {"fits", "map"}
    /\ fd.data # None
    /\ Cardinality(SignalPixels(Get(fd.data))) >= min_region_size

\* the indices from i on of the files with signal, in increasing order
RECURSIVE WithSignalFrom(_, _, _)
WithSignalFrom(fs, fds, i) ==
    IF i > Len(fs) THEN <<>>
    ELSE (IF HasSignal(fs[i], fds[i]) THEN <<i>> ELSE <<>>)
            \o WithSignalFrom(fs, fds, i + 1)

\* C11: in a batch, a file whose content fails to load or that has errors
\* already gives no region and has has_errors = TRUE afterwards; a file whose
\* array loads but is all zero or has too little signal gives no region and
\* keeps has_errors = FALSE; the regions of the other files are returned in
\* input order, each as detection of that file alone gives it.
C11_BatchSkipsAndContinues ==
    pc = "analyzed" =>
        LET before == call[2]
            kept == WithSignalFrom(before, image, 1)
        IN  /\ Len(files) = Len(before)
            /\ \A i \in 1..Len(before) :
                  /\ files[i].filepath = before[i].filepath
                  /\ LoadFails(before[i], image[i]) => files[i].has_errors
                  /\ ~LoadFails(before[i], image[i]) => ~files[i].has_errors
            /\ Len(regions) = Len(kept)
            /\ \A k \in 1..Len(kept) :
                  /\ regions[k].filename = basename(before[kept[k]].filepath)
                  /\ Some(regions[k])
                       = _analyze_single_impact_region(before[kept[k]], image[kept[k]]).region

\* a file that fails to load and a file without signal stand between two
\* files with signal: two regions, errors recorded on the failed file only
C11_Witness ==
    /\ pc = "analyzed"
    /\ Len(files) = 3
    /\ HasSignal(call[2][1], image[1])
    /\ ~call[2][2].has_errors /\ image[2].has_errors
    /\ HasSignal(call[2][3], image[3])
    /\ files[2].has_errors
    /\ Len(regions) = 2
    /\ regions[1].filename = "ACI ESA 912V 1000eV BEAM.fits"
    /\ regions[2].filename = "ACI ESA Dark 240922.map"

(* Repeated scans: the data directory is discovered, changes, and is *)
(* discovered again *)

\* the names a scanned directory is filled from, in the order it lists them:
\* the three kinds, extensions in other letter case, a hidden file, another file
ScanOrder ==
    <<"ACI ESA 1000eV.fits", "ACI ESA Dark 240922.map", "ACI ESA 5keV.phd",
      "ACI ESA 5keV.FITS", "ACI ESA 5keV.Map", ".ACI ESA 1000eV.fits", "notes.txt">>

ScanNames == {ScanOrder[i] : i \in 1..Len(ScanOrder)}

MaxScanned == 2

PathOf(n) == data_directory \o "/" \o n

ListingOf(names) == SelectSeq(ScanOrder, LAMBDA n : n \in names)

\* the answers of the file system for the files names: at most one of them
\* is not a plain file
StatsOf(names) ==
    {[p \in {PathOf(n) : n \in names} |-> "file"]}
      \cup {[p \in {PathOf(n) : n \in names} |-> IF p = PathOf(m) THEN a ELSE "file"] :
              m \in names, a \in {"dangling", "vanishing"}}

InitScan ==
    /\ \/ directory = None /\ stat = <<>>
       \/ \E names \in {s \in SUBSET ScanNames : Cardinality(s) <= MaxScanned} :
             /\ directory = Some(ListingOf(names))
             /\ stat \in StatsOf(names)
    /\ files = <<>> /\ call = NoCall /\ groups = <<>>
    /\ pc = "start"
    /\ filename = "" /\ params = None /\ exc = None
    /\ data_file = None /\ image = None /\ region = None
    /\ regions = <<>> /\ result = None

\* discover_files(); call keeps the list the manager held before
Scan ==
    /\ pc \in {"start", "changed"}
    /\ files' = discover_files(directory, stat)
    /\ call' = <<"discover_files", files>>
    /\ pc' = IF pc = "start" THEN "scanned" ELSE "rescanned"
    /\ UNCHANGED <<filename, params, exc, directory, stat, groups, data_file, image,
                   region, regions, result>>

\* the names now listed
Listed == IF directory = None THEN {} ELSE {Get(directory)[i] : i \in 1..Len(Get(directory))}

\* between two scans a file appears in the directory
AddEntry ==
    /\ pc = "scanned"
    /\ directory # None
    /\ Cardinality(Listed) < MaxScanned
    /\ \E n \in ScanNames \ Listed :
          /\ directory' = Some(ListingOf(Listed \cup {n}))
          /\ stat' \in {s \in StatsOf(Listed \cup {n}) :
                          \A m \in Listed : s[PathOf(m)] = stat[PathOf(m)]}
    /\ pc' = "changed"
    /\ UNCHANGED <<filename, params, exc, files, call, groups, data_file, image, region,
                   regions, result>>

\* between two scans a file is removed from the directory
RemoveEntry ==
    /\ pc = "scanned"
    /\ \E n \in Listed :
          /\ directory' = Some(ListingOf(Listed \ {n}))
          /\ stat' = [p \in {PathOf(m) : m \in Listed \ {n}} |-> stat[p]]
    /\ pc' = "changed"
    /\ UNCHANGED <<filename, params, exc, files, call, groups, data_file, image, region,
                   regions, result>>

\* between two scans the directory is removed, or made when there is none
ReplaceDirectory ==
    /\ pc = "scanned"
    /\ directory' = IF directory = None THEN Some(<<>>) ELSE None
    /\ stat' = <<>>
    /\ pc' = "changed"
    /\ UNCHANGED <<filename, params, exc, files, call, groups, data_file, image, region,
                   regions, result>>

NextScan == Scan \/ AddEntry \/ RemoveEntry \/ ReplaceDirectory

SpecScan == InitScan /\ [][NextScan]_vars

(* Properties of discovery, checked on SpecScan *)

\* the kind of the extension of the name n, letter case as given
KindOfExtension(n) ==
    CASE EndsWith(n, ".fits") -> "fits"
      [] EndsWith(n, ".map") -> "map"
      [] EndsWith(n, ".phd") -> "phd"
      [] OTHER -> "unknown"

\* the listed names that are still there when the scan ends
Remaining == {n \in Listed : stat[PathOf(n)] # "vanishing"}

\* the paths of the files of the list fs
PathsIn(fs) == {fs[i].filepath : i \in 1..Len(fs)}

\* the list fs holds exactly one file for each name of names, tagged with the
\* kind of its extension, which is also the kind in its parameters
OnePerName(fs, names) ==
    /\ PathsIn(fs) = {PathOf(n) : n \in names}
    /\ Len(fs) = Cardinality(names)
    /\ \A i \in 1..Len(fs) : \A n \in names :
          fs[i].filepath = PathOf(n) =>
              /\ fs[i].file_type = KindOfExtension(n)
              /\ fs[i].parameters.file_type = KindOfExtension(n)

Scanned == pc \in {"scanned", "rescanned"}

Matching_visible(n) == KindOfExtension(n) # "unknown" /\ ~StartsWithAt(n, 1, ".")

\* C13: a file of the directory whose processing meets a file system error
\* still has its entry in the list, with has_errors = TRUE and a message, and
\* every other matching file has its entry too.
C13_ErrorsRecordedOnEntity ==
    Scanned =>
        \A n \in {m \in Listed : Matching_visible(m)} :
            \E i \in 1..Len(files) :
                /\ files[i].filepath = PathOf(n)
                /\ stat[PathOf(n)] # "file" =>
                      files[i].has_errors /\ files[i].error_messages # <<>>

\* str.lower() of one character, of a string
LowerChar(c) ==
    IF c \in Upper
    THEN CharAt("abcdefghijklmnopqrstuvwxyz", IndexOf("ABCDEFGHIJKLMNOPQRSTUVWXYZ", c))
    ELSE c

RECURSIVE LowerCased(_)
LowerCased(s) == IF s = "" THEN "" ELSE LowerChar(CharAt(s, 1)) \o LowerCased(SubSeq(s, 2, Len(s)))

\* C14: a file whose extension is .fits, .map or .phd in any letter case is
\* discovered and given that kind, in file_type and in its parameters.
C14_ExtensionsAnyCase ==
    Scanned =>
        \A n \in {m \in Remaining : Matching_visible(LowerCased(m))} :
            \E i \in 1..Len(files) :
                /\ files[i].filepath = PathOf(n)
                /\ files[i].file_type = KindOfExtension(LowerCased(n))
                /\ files[i].parameters.file_type = KindOfExtension(LowerCased(n))

(* Grouping: a data directory is discovered, then grouped by one attribute *)
(* or by a list of attributes *)

\* the names a grouped directory is filled from, in the order it lists them:
\* files with and without a voltage, two files of one energy and voltage, and
\* a file whose wave token reads None
GroupingOrder ==
    <<"ACI ESA 1000eV.fits", "ACI ESA 181V 1000eV BEAM.fits", "ACI ESA 181V 1keV BEAM.map",
      "ACI ESA 912V 1000eV BEAM.fits", "ACI ESA 912V 5keV BEAM.phd",
      "ACI_ESA_Rotating_Beam-1keV_Focus-X-1-Y-1_Offset-X-1_Y-1_Wave-None_ESA-181_MCP-1-1.fits">>

GroupingListings ==
    {SelectSeq(GroupingOrder, LAMBDA n : n \in s) :
        s \in {x \in SUBSET {GroupingOrder[i] : i \in 1..Len(GroupingOrder)} :
                 Cardinality(x) <= MaxFiles}}

ParameterNames ==
    {"beam_energy_value", "esa_voltage_value", "wave_type", "file_type", "no_such_attribute"}

InitGroup ==
    /\ directory \in {Some(l) : l \in GroupingListings}
    /\ stat = <<>>
    /\ files = <<>> /\ call = NoCall /\ groups = <<>>
    /\ pc = "start"
    /\ filename = "" /\ params = None /\ exc = None
    /\ data_file = None /\ image = None /\ region = None
    /\ regions = <<>> /\ result = None

GroupByParameter ==
    /\ pc = "discovered"
    /\ \E parameter \in ParameterNames, min_group_size \in {1, 2, 3} :
          /\ call' = <<"group_files_by_parameter", parameter, min_group_size>>
          /\ groups' = group_files_by_parameter(files, parameter, min_group_size)
    /\ pc' = "called"
    /\ UNCHANGED <<filename, params, exc, directory, stat, files, data_file, image, region,
                   regions, result>>

NextGroup == Discover \/ GroupByParameter \/ GroupByParameters

SpecGroup == InitGroup /\ [][NextGroup]_vars

(* Properties of grouping, checked on SpecGroup *)

\* the files f and g have the same value of the attribute name, or both none
SameValue(f, g, name) == getattr(f.parameters, name) = getattr(g.parameters, name)

\* the paths of the files of the catalog that agree with f on every name of names
ClassOf(f, names) ==
    {g.filepath : g \in {h \in {files[i] : i \in 1..Len(files)} :
                            \A k \in 1..Len(names) : SameValue(f, h, names[k])}}

\* the groups of gs that hold the file f
GroupsWith(gs, f) == {j \in 1..Len(gs) : f.filepath \in PathsIn(gs[j].files)}

\* C15: grouping by a list of names puts two files into the same group iff
\* they agree on every name, a missing value agreeing with a missing value
\* only; the members' values are the group's common_parameters; groups of
\* fewer than min_group_size files are dropped.
C15_SameGroupIffAgree ==
    (call[1] = "group_files_by_multiple_parameters" /\ call[2] # <<>>) =>
        /\ \A i \in 1..Len(files) :
              IF Cardinality(ClassOf(files[i], call[2])) >= call[3]
              THEN \E j \in 1..Len(groups) :
                      /\ GroupsWith(groups, files[i]) = {j}
                      /\ PathsIn(groups[j].files) = ClassOf(files[i], call[2])
              ELSE GroupsWith(groups, files[i]) = {}
        /\ \A j \in 1..Len(groups) : \A m \in 1..Len(groups[j].files) :
              \A k \in 1..Len(call[2]) :
                  groups[j].common_parameters[call[2][k]]
                     = getattr(groups[j].files[m].parameters, call[2][k])

\* the files of the catalog that have a value of the attribute name
WithValue(name) == {i \in 1..Len(files) : getattr(files[i].parameters, name) # None}

\* C16: grouping by one name returns groups of files of the catalog that share
\* no file; no file without a value of the name is in a group; the members of
\* a group have one value; every group has at least min_group_size files; and
\* every file with a value that at least min_group_size files have is in
\* exactly one group.
C16_GroupsByOneParameter ==
    call[1] = "group_files_by_parameter" =>
        /\ \A j \in 1..Len(groups) :
              /\ Len(groups[j].files) >= call[3]
              /\ Cardinality(PathsIn(groups[j].files)) = Len(groups[j].files)
              /\ PathsIn(groups[j].files) \subseteq {files[i].filepath : i \in WithValue(call[2])}
              /\ \A m, n \in 1..Len(groups[j].files) :
                    SameValue(groups[j].files[m], groups[j].files[n], call[2])
              /\ \A k \in 1..Len(groups) :
                    k # j => PathsIn(groups[j].files) \cap PathsIn(groups[k].files) = {}
        /\ \A i \in WithValue(call[2]) :
              Cardinality(ClassOf(files[i], <<call[2]>>)) >= call[3]
                 => Cardinality(GroupsWith(groups, files[i])) = 1

\* three files grouped by voltage with at least two files a group: the two
\* files of 181 V make the one group, the file without a voltage is in none
C16_Witness ==
    /\ call = <<"group_files_by_parameter", "esa_voltage_value", 2>>
    /\ Len(files) = 3
    /\ \E i \in 1..3 : i \notin WithValue("esa_voltage_value")
    /\ Len(groups) = 1
    /\ Len(groups[1].files) = 2
    /\ groups[1].name = "esa_voltage_value_181.0"

\* the lists that hold the names of the list names in any order
Reorderings(names) ==
    {[i \in 1..Len(names) |-> names[p[i]]] : p \in Permutations(1..Len(names))}

\* the names of the groups gs, and their sets of files
NamesOf(gs) == {gs[j].name : j \in 1..Len(gs)}

PartitionOf(gs) == {PathsIn(gs[j].files) : j \in 1..Len(gs)}

\* C17: the names in another order give every file the same key, so the
\* groups have the same names and hold the same files.
C17_KeyOrderIndependent ==
    call[1] = "group_files_by_multiple_parameters" =>
        \A parameters \in Reorderings(call[2]) :
            /\ \A i \in 1..Len(files) :
                  KeyOf(files[i], parameters) = KeyOf(files[i], call[2])
            /\ NamesOf(group_files_by_multiple_parameters(files, parameters, call[3]))
                  = NamesOf(groups)
            /\ PartitionOf(group_files_by_multiple_parameters(files, parameters, call[3]))
                  = PartitionOf(groups)

(* Properties of the single schemes, checked on SpecParse *)

\* the datetime of the numbers c = <<year, month, day, hour, minute, second>>
DateTime(c) ==
    [year |-> c[1], month |-> c[2], day |-> c[3], hour |-> c[4], minute |-> c[5],
     second |-> c[6]]

\* the record p holds the fixed tokens of a fully annotated name, the voltage
\* v and the test type of a voltage sweep
AnnotatedWith(p, v) ==
    /\ p.horizontal_value_num = Some(RInt(79))
    /\ p.esa_voltage_value = Some(RInt(v))
    /\ p.mcp_voltage_value = Some(RInt(2200))
    /\ p.wave_type = Some("Triangle")
    /\ p.focus_x = Some("pt4") /\ p.focus_y = Some("2")
    /\ p.offset_x = Some("-pt1") /\ p.offset_y = Some("1")
    /\ p.test_type = Some("voltage_sweep")

\* C18: a fully annotated name gives the numbers of its angle, Hor, ESA (with
\* its sign) and MCP tokens, the wave, focus and offset tokens as they stand
\* and test_type "voltage_sweep"; an angle token AtoB gives the midpoint.
C18_FullyAnnotated ==
    (pc = "parsed" /\ StartsWithAt(filename, 1, "ACI_ESA-Inner-")) =>
        \A e \in {nt[1] \o u : nt \in NumberTokens, u \in {"eV", "keV"}},
           v \in EsaNumbers, t \in {"240922-213604", ""},
           x \in {".fits", ".map"}, a \in AngleNumbers :
            /\ filename = DetailedHead(a[1]) \o e \o DetailedTail(v[1], t) \o x =>
                  /\ IsSome(params)
                  /\ Get(params).inner_angle_value = Some(RInt(a[2]))
                  /\ AnnotatedWith(Get(params), v[2])
            /\ \A b \in AngleNumbers :
                  filename = DetailedHead(a[1] \o "to" \o b[1]) \o e
                                \o DetailedTail(v[1], t) \o x =>
                      /\ IsSome(params)
                      /\ Get(params).inner_angle_value = Some(Rat(a[2] + b[2], 2))
                      /\ AnnotatedWith(Get(params), v[2])

\* the name of the scenario has been parsed: 62.0, 79.0, -181.0, Triangle
C18_Witness ==
    /\ pc = "parsed"
    /\ filename = "ACI_ESA-Inner-62-Hor79_Beam-1000eV_Focus-X-pt4-Y-2_Offset-X--pt1_Y-1"
                     \o "_Wave-Triangle_ESA--181_MCP-2200-100240922-213604.fits"
    /\ Get(params).inner_angle_value = Some(RInt(62))
    /\ Get(params).horizontal_value_num = Some(RInt(79))
    /\ Get(params).esa_voltage_value = Some(RInt(-181))
    /\ Get(params).wave_type = Some("Triangle")
    /\ Get(params).test_type = Some("voltage_sweep")

\* C19: a name "ACI ESA <N>eV<YYMMDD-HHMMSS>" with a valid timestamp gives
\* beam_energy_value N, unit eV, test_type "energy_test", no voltage, and the
\* date and time of the token, the year being 2000 + YY for YY <= 68.
C19_EnergyOnly ==
    (pc = "parsed" /\ StartsWithAt(filename, 1, "ACI ESA ")) =>
        \A nt \in NumberTokens, c \in {d \in Calendar : DigitsVal(SubSeq(d[1], 1, 2)) <= 68},
           x \in {".fits", ".map", ".phd"} :
            filename = "ACI ESA " \o nt[1] \o "eV" \o c[1] \o x =>
                /\ IsSome(params)
                /\ Get(params).beam_energy_value = Some(nt[2])
                /\ Get(params).beam_energy_unit = Some("eV")
                /\ Get(params).test_type = Some("energy_test")
                /\ Get(params).esa_voltage = None
                /\ Get(params).esa_voltage_value = None
                /\ Get(params).datetime_obj = Some(DateTime(c[2]))
                /\ c[2][1] = 2000 + DigitsVal(SubSeq(c[1], 1, 2))

\* the name of the scenario has been parsed: 1000.0 and 2024-09-22 19:03:15
C19_Witness ==
    /\ pc = "parsed"
    /\ filename = "ACI ESA 1000eV240922-190315.fits"
    /\ Get(params).beam_energy_value = Some(RInt(1000))
    /\ Get(params).test_type = Some("energy_test")
    /\ Get(params).datetime_obj = Some(DateTime(<<2024, 9, 22, 19, 3, 15>>))

\* C20: a name of the voltage and energy BEAM scheme or of the BEAM PREP
\* scheme whose energy token has a kilo unit in any letter case gives
\* beam_energy_value 1000 times the number of the token; the BEAM scheme also
\* gives the voltage of the prefix and test_type "voltage_sweep".
C20_KiloUnitSchemes ==
    (pc = "parsed" /\ StartsWithAt(filename, 1, "ACI ESA ")) =>
        \A nt \in NumberTokens, u \in KiloUnits,
           t \in TimestampTokens \cup CenturyTimestampTokens :
            /\ \A v \in {"912", "181"} :
                  filename = "ACI ESA " \o v \o "V " \o nt[1] \o u \o " BEAM" \o t \o ".fits" =>
                      /\ IsSome(params)
                      /\ Get(params).beam_energy_value = Some(RMul(nt[2], RInt(1000)))
                      /\ Get(params).esa_voltage_value = Some(RInt(DigitsVal(v)))
                      /\ Get(params).test_type = Some("voltage_sweep")
            /\ filename = "ACI ESA " \o nt[1] \o u \o " BEAM PREP" \o t \o ".fits" =>
                  /\ IsSome(params)
                  /\ Get(params).beam_energy_value = Some(RMul(nt[2], RInt(1000)))

\* the two names of the data set have been parsed with 5000 eV
C20_Witness ==
    /\ pc = "parsed"
    /\ \/ /\ filename = "ACI ESA 912V 5KEV BEAM240921-215501.fits"
          /\ Get(params).esa_voltage_value = Some(RInt(912))
          /\ Get(params).test_type = Some("voltage_sweep")
       \/ filename = "ACI ESA 5kEV BEAM PREP240921-215501.fits"
    /\ Get(params).beam_energy_value = Some(RInt(5000))

\* the grammars more specific than the energy-only one, in dispatch order
SpecificGrammars == <<"detailed", "voltage_energy", "beam_prep">>

\* the record the pattern g alone makes of the name fname
RecordOf(g, fname) ==
    _post_process_parameters(
        _extract_parameters_from_match(
            ExperimentalParameters(fname, _get_file_type(basename(fname)), basename(fname)),
            Groups(g, Stripped(fname)), g).value)

\* C24: when a name matches one of the fully annotated, voltage and energy
\* BEAM and BEAM PREP patterns and the energy-only pattern too, the record is
\* the one the first of these more specific patterns makes of it.
C24_SpecificGrammarWins ==
    pc = "parsed" =>
        \A k \in 1..Len(SpecificGrammars) :
            (/\ Matches("simple_energy", Stripped(filename))
             /\ Matches(SpecificGrammars[k], Stripped(filename))
             /\ \A j \in 1..(k - 1) : ~Matches(SpecificGrammars[j], Stripped(filename)))
               => params = Some(RecordOf(SpecificGrammars[k], filename))

\* the names of the fully annotated and of the rotating scheme in which the
\* timestamp token t follows the MCP field
WithTimestampAfterMcp(t) ==
    {DetailedHead(a) \o e \o DetailedTail(v, t) \o ".fits" :
       a \in AngleTokens, e \in {"1000eV", "5keV"}, v \in EsaTokens}
    \cup {"ACI_ESA_Rotating" \o s \o "_Beam-" \o e \o DetailedTail(v, t) \o ".fits" :
            s \in {"", "2"}, e \in {"1000eV", "5keV"}, v \in EsaTokens}

\* C25: a fully annotated or rotating name whose MCP field is followed by a
\* timestamp token gives that token as timestamp and its date and time as
\* datetime_obj.
C25_TimestampAfterMcp ==
    pc = "parsed" =>
        \A c \in Calendar :
            filename \in WithTimestampAfterMcp(c[1]) =>
                /\ IsSome(params)
                /\ Get(params).timestamp = Some(c[1])
                /\ Get(params).datetime_obj = Some(DateTime(c[2]))

\* the names of the five schemes with an energy token, built with the token e
WithEnergyToken(e) ==
    {DetailedHead(a) \o e \o DetailedTail("-181", t) \o ".fits" :
       a \in {"62", "84to-118"}, t \in {"240922-213604", ""}}
    \cup {"ACI ESA " \o e \o t \o ".fits" : t \in TimestampTokens \cup CenturyTimestampTokens}
    \cup {"ACI ESA 912V " \o e \o " BEAM" \o t \o ".fits" : t \in TimestampTokens}
    \cup {"ACI ESA " \o e \o " BEAM PREP" \o t \o ".fits" : t \in TimestampTokens}
    \cup {"ACI_ESA_Rotating" \o s \o "_Beam-" \o e \o DetailedTail(v, t) \o ".fits" :
            s \in {"", "2"}, v \in EsaTokens, t \in {"240922-213604", ""}}

\* C26: in each of the five schemes with an energy token, a token written
\* with any of the units eV, EV, keV, KEV, kEV, KeV is recognized:
\* beam_energy_value is the number of the token, times 1000 for a kilo unit.
C26_SixUnitSpellings ==
    pc = "parsed" =>
        \A nt \in NumberTokens, u \in EvUnits \cup KiloUnits :
            filename \in WithEnergyToken(nt[1] \o u) =>
                /\ IsSome(params)
                /\ Get(params).beam_energy = Some(nt[1] \o u)
                /\ Get(params).beam_energy_value =
                       Some(IF u \in KiloUnits THEN RMul(nt[2], RInt(1000)) ELSE nt[2])

\* _parse_angle returned r, the number n and not a pair
IsTheNumber(r, n) == ~r.raised /\ DOMAIN r.value # {"range"} /\ r.value = RInt(n)

\* C27: _parse_angle gives one number for the angle token of a parsed name:
\* the number of a bare signed token A, and the first angle A of a token AtoB.
C27_AngleIsOneNumber ==
    (pc = "parsed" /\ IsSome(params) /\ IsSome(Get(params).inner_angle)) =>
        /\ \E a \in AngleNumbers :
              \/ Get(Get(params).inner_angle) = a[1]
              \/ \E b \in AngleNumbers : Get(Get(params).inner_angle) = a[1] \o "to" \o b[1]
        /\ \A a \in AngleNumbers :
              /\ Get(Get(params).inner_angle) = a[1] =>
                    IsTheNumber(_parse_angle(a[1]), a[2])
              /\ \A b \in AngleNumbers :
                    Get(Get(params).inner_angle) = a[1] \o "to" \o b[1] =>
                        IsTheNumber(_parse_angle(a[1] \o "to" \o b[1]), a[2])

\* dict.get(key): the value under key, None without the key
DictGet(d, key) == IF key \in DOMAIN d THEN Some(d[key]) ELSE None

\* C29: for a list with at least one region of nonzero energy and nonzero
\* voltage the result of estimate_k_factor has the keys mean_k_factor,
\* std_k_factor, min_k_factor, max_k_factor and measurements, and
\* result.get("mean_k_factor") is a positive number.
C29_KeysTheScriptsRead ==
    (pc = "estimated" /\ Paired(regions) # <<>>) =>
        /\ result # None
        /\ {"mean_k_factor", "std_k_factor", "min_k_factor", "max_k_factor", "measurements"}
             \subseteq DOMAIN Get(result)
        /\ IsSome(DictGet(Get(result), "mean_k_factor"))
        /\ RLt(RZero, Get(DictGet(Get(result), "mean_k_factor")))

MaxLoads == 3

LoadPaths == {PathOf(n) : n \in DetectNames} \cup {"data/notes.txt"}

\* filename: the path the entity is made for; stat: what the file system
\* answers for it; image: what reading the file yields at this moment
InitLoad ==
    /\ filename \in LoadPaths
    /\ \E a \in {"file", "dangling", "vanishing"} : stat = [p \in {filename} |-> a]
    /\ image \in BatchContents
    /\ data_file = None /\ result = None /\ exc = None
    /\ call = <<"load_file_data", 0>>
    /\ directory = None /\ files = <<>> /\ groups = <<>>
    /\ params = None /\ region = None /\ regions = <<>>
    /\ pc = "start"

\* DataFile(filepath=filename, parameters=parse_filename(filename), file_type=...)
Create ==
    /\ pc = "start"
    /\ \E t \in {TryFile(filename, parse_filename(filename),
                         _get_file_type(basename(filename)), os_stat(stat, filename))} :
          /\ data_file' = IF t.raised THEN None ELSE Some(t.value)
          /\ exc' = IF t.raised THEN Some(t.value) ELSE None
          /\ pc' = IF t.raised THEN "failed" ELSE "created"
    /\ UNCHANGED <<filename, params, directory, stat, files, call, groups, image, region,
                   regions, result>>

\* the file is written anew between two calls
ChangeContent ==
    /\ pc \in {"created", "loaded"}
    /\ image' \in BatchContents \ {image}
    /\ UNCHANGED <<filename, params, exc, directory, stat, files, call, groups, data_file,
                   region, regions, result, pc>>

\* load_file_data(data_file)
Load ==
    /\ pc \in {"created", "loaded"}
    /\ call[2] < MaxLoads
    /\ \E l \in {load_file_data(Get(data_file), image)} :
          /\ data_file' = Some(l.data_file)
          /\ result' = Some(l.value)
    /\ call' = <<"load_file_data", call[2] + 1>>
    /\ pc' = "loaded"
    /\ UNCHANGED <<filename, params, exc, directory, stat, files, groups, image, region,
                   regions>>

NextLoad == Create \/ ChangeContent \/ Load

SpecLoad == InitLoad /\ [][NextLoad]_vars

(* Properties of the entity, checked on SpecLoad *)

\* load_file_data has just been called on an entity that was loaded or in error
LoadOfSettled ==
    /\ pc' = "loaded" /\ call' # call
    /\ Get(data_file).is_loaded \/ Get(data_file).has_errors

\* C28: load_file_data never raises and returns TRUE exactly when has_errors
\* is FALSE afterwards; a call on an entity that is loaded or in error leaves
\* every field of the entity as it was, whatever the file holds by then, and
\* returns what the call before returned.
C28_LoadOnce ==
    /\ [](pc = "loaded" => (exc = None /\ result = Some(~Get(data_file).has_errors)))
    /\ [][LoadOfSettled =>
            /\ data_file' = data_file
            /\ result' = Some(~Get(data_file).has_errors)
            /\ pc = "loaded" => result' = result]_vars

\* a file was loaded, written anew so that it can no longer be read, and
\* loaded again: it holds the first content and the call returned TRUE
C28_Witness ==
    /\ pc = "loaded" /\ call[2] >= 2
    /\ Get(data_file).is_loaded /\ ~Get(data_file).has_errors
    /\ Get(data_file).fits_data = Some(FitsData(Some(SignalArray), FALSE))
    /\ image = FitsData(None, TRUE)
    /\ result = Some(TRUE)

\* C23: an entity made for a path that does not exist has has_errors and a
\* first message "File not found..."; one made for a file that exists has no
\* error and a size; in every state has_errors holds exactly when
\* error_messages is not empty, and no step resets has_errors.
C23_ErrorStateConsistent ==
    /\ [](data_file # None =>
            /\ os_stat(stat, filename) = "dangling" =>
                  /\ Get(data_file).has_errors
                  /\ Len(Get(data_file).error_messages) >= 1
                  /\ StartsWithAt(Get(data_file).error_messages[1], 1, "File not found")
            /\ os_stat(stat, filename) = "file" =>
                  /\ Get(data_file).file_size # None
                  /\ pc = "created" => ~Get(data_file).has_errors
            /\ Get(data_file).has_errors <=> Get(data_file).error_messages # <<>>)
    /\ [][(data_file # None /\ Get(data_file).has_errors) =>
            (data_file' # None /\ Get(data_file').has_errors)]_vars

\* a file that exists could not be read, and load_file_data was called again
\* with the file readable: the entity keeps its error and its one message
C23_Witness ==
    /\ pc = "loaded" /\ call[2] >= 2
    /\ os_stat(stat, filename) = "file"
    /\ Get(data_file).has_errors
    /\ Len(Get(data_file).error_messages) = 1
    /\ ~image.has_errors

(* data_model.py: the summary of the files *)

\* a < b for two datetimes
DateLt(a, b) ==
    LET ta == <<a.year, a.month, a.day, a.hour, a.minute, a.second>>
        tb == <<b.year, b.month, b.day, b.hour, b.minute, b.second>>
        ks == {k \in 1..6 : ta[k] # tb[k]}
    IN  ks # {} /\ ta[SetMin(ks)] < tb[SetMin(ks)]

\* sorted(timestamps): x goes after the last entry that is not later than x
RECURSIVE SortedDates(_)
SortedDates(ts) ==
    IF ts = <<>> THEN <<>>
    ELSE LET rest == SortedDates(SubSeq(ts, 1, Len(ts) - 1))
             x == ts[Len(ts)]
             k == Cardinality({j \in 1..Len(rest) : ~DateLt(x, rest[j])})
         IN  SubSeq(rest, 1, k) \o <<x>> \o SubSeq(rest, k + 1, Len(rest))

\* dict counting over the keys ks of the files: the keys that occur, each
\* with the number of its files
CountBy(ks) ==
    [k \in {ks[i] : i \in 1..Len(ks)} |-> Cardinality({i \in 1..Len(ks) : ks[i] = k})]

\* the values of the float attribute name that are not None and not 0.0
TruthyValues(fs, name) ==
    {Get(v) : v \in {w \in {fs[i].parameters[name] : i \in 1..Len(fs)} :
                        w # None /\ Get(w)[1] # 0}}

\* get_files_summary(); a size "st_size" counts as a number other than 0
get_files_summary(fs) ==
    [total_files |-> Len(fs),
     by_type |-> CountBy([i \in 1..Len(fs) |-> fs[i].file_type]),
     by_test_type |-> CountBy([i \in 1..Len(fs) |-> fs[i].parameters.test_type]),
     beam_energies |-> sorted(TruthyValues(fs, "beam_energy_value"), "beam_energy_value"),
     esa_voltages |-> sorted(TruthyValues(fs, "esa_voltage_value"), "esa_voltage_value"),
     timestamps |->
        SortedDates(LET with == SelectSeq(fs, LAMBDA f : f.parameters.datetime_obj # None)
                    IN  [i \in 1..Len(with) |-> Get(with[i].parameters.datetime_obj)]),
     file_sizes |->
        LET with == SelectSeq(fs, LAMBDA f : f.file_size # None)
        IN  [i \in 1..Len(with) |-> Get(with[i].file_size)]]

(* A session: the files are discovered, then grouped, compared, summarized, *)
(* loaded, analysed and the k-factor estimated, in any order                *)

\* the most files of the directory
MaxSession == 2

SessionOrder ==
    <<"ACI ESA 912V 1000eV BEAM.fits", "ACI ESA 1000eV240922-190315.map",
      "ACI ESA 912V 1keV BEAM.phd">>

SessionListings ==
    {SelectSeq(SessionOrder, LAMBDA n : n \in names) :
        names \in {s \in SUBSET {SessionOrder[k] : k \in 1..Len(SessionOrder)} :
                      Cardinality(s) <= MaxSession}}

\* an image with signal, or a file that cannot be read
SessionContents == {FitsData(Some(SignalArray), FALSE), FitsData(None, TRUE)}

\* image[i]: what reading the i-th file yields
InitSession ==
    /\ \E l \in SessionListings :
          /\ directory = Some(l)
          /\ image \in [1..Len(l) -> SessionContents]
    /\ stat = <<>> /\ files = <<>> /\ call = NoCall /\ groups = <<>>
    /\ filename = "" /\ params = None /\ exc = None
    /\ data_file = None /\ region = None /\ regions = <<>> /\ result = None
    /\ pc = "start"

Summarize ==
    /\ pc = "discovered"
    /\ call' = <<"get_files_summary", get_files_summary(files)>>
    /\ pc' = "called"
    /\ UNCHANGED <<filename, params, exc, directory, stat, files, groups, data_file, image,
                   region, regions, result>>

LoadFile ==
    /\ pc = "discovered"
    /\ \E i \in 1..Len(files) :
          \E l \in {load_file_data(files[i], image[i])} :
             /\ files' = [files EXCEPT ![i] = l.data_file]
             /\ call' = <<"load_file_data", i, l.value>>
    /\ pc' = "called"
    /\ UNCHANGED <<filename, params, exc, directory, stat, groups, data_file, image, region,
                   regions, result>>

AnalyzeFiles ==
    /\ pc = "discovered"
    /\ \E r \in {analyze_impact_regions(files, image)} :
          /\ files' = r.files
          /\ regions' = r.regions
    /\ call' = <<"analyze_impact_regions">>
    /\ pc' = "called"
    /\ UNCHANGED <<filename, params, exc, directory, stat, groups, data_file, image, region,
                   result>>

EstimateRegions ==
    /\ pc = "discovered"
    /\ \E r \in {estimate_k_factor(regions)} :
          /\ result' = IF r.raised THEN None ELSE Some(r.value)
          /\ exc' = IF r.raised THEN Some(r.value) ELSE None
    /\ call' = <<"estimate_k_factor">>
    /\ pc' = "called"
    /\ UNCHANGED <<filename, params, directory, stat, files, groups, data_file, image, region,
                   regions>>

\* the caller is done with what the call returned and goes on to the next
\* call; it keeps the regions and the estimate, and lets the groups go
Return ==
    /\ pc = "called"
    /\ pc' = "discovered"
    /\ call' = NoCall
    /\ groups' = <<>>
    /\ UNCHANGED <<filename, params, exc, directory, stat, files, data_file, image, region,
                   regions, result>>

NextSession ==
    \/ Discover \/ GroupByParameter \/ GroupByParameters \/ FindComparisonSets
    \/ Summarize \/ LoadFile \/ AnalyzeFiles \/ EstimateRegions \/ Return

SpecSession == InitSession /\ [][NextSession]_vars

(* Properties of a session, checked on SpecSession *)

\* every file of every group of gs has the parameters of the entity of fs
\* that has its path
GroupsShareRecords(gs, fs) ==
    \A g \in 1..Len(gs) : \A j \in 1..Len(gs[g].files) :
        \E i \in 1..Len(fs) :
            /\ gs[g].files[j].filepath = fs[i].filepath
            /\ gs[g].files[j].parameters = fs[i].parameters

\* C22: discovery gives each entity the record parse_filename returns for its
\* path, and no later grouping, search for comparison sets, summary, load,
\* detection or estimation changes a field of the record of any entity.
C22_RecordsUnchanged ==
    [][/\ pc = "start" =>
            \A i \in 1..Len(files') :
                files'[i].parameters = parse_filename(files'[i].filepath).value
       /\ pc # "start" =>
            /\ Len(files') = Len(files)
            /\ \A i \in 1..Len(files) :
                  /\ files'[i].filepath = files[i].filepath
                  /\ files'[i].parameters = files[i].parameters
            /\ GroupsShareRecords(groups', files')]_vars

\* two files were loaded and analysed, the k-factor was estimated from a
\* region, and the files have just been grouped by one parameter: the first
\* file still has the record of a voltage sweep at 912 V
C22_Witness ==
    /\ pc = "called" /\ call[1] = "group_files_by_parameter"
    /\ Len(files) = 2
    /\ groups # <<>>
    /\ \A i \in 1..Len(files) : files[i].is_loaded \/ files[i].has_errors
    /\ regions # <<>>
    /\ result # None /\ "k_factor_mean" \in DOMAIN Get(result)
    /\ files[1].parameters.test_type = Some("voltage_sweep")
    /\ files[1].parameters.esa_voltage_value = Some(RInt(912))

(* filename_parser.py: parse_filenames, one parser for a list of names *)

\* the list comprehension from the i-th name on; a raise ends it
RECURSIVE ParseFrom(_, _, _)

\* r: what parse_filename did for the i-th name
ParseStep(filenames, i, acc, r) ==
    IF r.raised THEN r ELSE ParseFrom(filenames, i + 1, Append(acc, r.value))

ParseFrom(filenames, i, acc) ==
    IF i > Len(filenames) THEN Ok(acc)
    ELSE ParseStep(filenames, i, acc, parse_filename(filenames[i]))

\* a parser that starts each record from the energy of the record before
parse_filenames_carrying(filenames) ==
    Ok([i \in 1..Len(filenames) |->
          IF i > 1 /\ parse_filename(filenames[i]).value.beam_energy_value = None
          THEN [parse_filename(filenames[i]).value
                   EXCEPT !.beam_energy_value =
                              parse_filename(filenames[i - 1]).value.beam_energy_value]
          ELSE parse_filename(filenames[i]).value])

parse_filenames(filenames) == ParseFrom(filenames, 1, <<>>)

(* Lists of names parsed by one call of parse_filenames or by workers that  *)
(* share the parser and hand their records to one writer; the files made of *)
(* the records are analysed by one call of analyze_impact_regions           *)

\* the most names of a list and the most files of a batch
MaxNames == 2

Workers == {"w1", "w2"}

SharedNames ==
    {"ACI ESA 912V 5KEV BEAM240921-215501.fits", "ACI ESA 1000eV240922-190315.map",
     "junk.fits"}

Idle == [position |-> "idle", index |-> 0, record |-> None]

\* call[2]: the list of names; params[w]: what the worker w holds; result[i]:
\* the record the writer has stored for the i-th name
InitWorkers ==
    /\ \E n \in 0..MaxNames :
          /\ \E names \in [1..n -> SharedNames] : call = <<"parse_filenames", names>>
          /\ result = [i \in 1..n |-> None]
    /\ params = [w \in Workers |-> Idle]
    /\ pc = "workers"
    /\ filename = "" /\ exc = None
    /\ directory = None /\ stat = <<>> /\ files = <<>> /\ groups = <<>>
    /\ data_file = None /\ image = None /\ region = None /\ regions = <<>>

\* the indices no worker has taken yet
Untaken ==
    {i \in 1..Len(call[2]) :
        result[i] = None /\ \A w \in Workers : params[w].index # i}

\* the worker w takes a name of the list, whichever is left
Take(w) ==
    /\ pc = "workers"
    /\ params[w].position = "idle"
    /\ \E i \in Untaken :
          params' = [params EXCEPT ![w] = [position |-> "taken", index |-> i,
                                           record |-> None]]
    /\ UNCHANGED <<filename, exc, directory, stat, files, call, groups, data_file, image,
                   region, regions, result, pc>>

\* the worker w calls parse_filename of the shared parser on its name
ParseOne(w) ==
    /\ pc = "workers"
    /\ params[w].position = "taken"
    /\ \E r \in {parse_filename(call[2][params[w].index])} :
          /\ ~r.raised
          /\ params' = [params EXCEPT ![w].position = "parsed", ![w].record = Some(r.value)]
    /\ UNCHANGED <<filename, exc, directory, stat, files, call, groups, data_file, image,
                   region, regions, result, pc>>

\* the writer stores the record of the worker w at the place of its name
Merge(w) ==
    /\ pc = "workers"
    /\ params[w].position = "parsed"
    /\ result' = [result EXCEPT ![params[w].index] = params[w].record]
    /\ params' = [params EXCEPT ![w] = Idle]
    /\ pc' = IF \A i \in 1..Len(result) : result'[i] # None THEN "merged" ELSE "workers"
    /\ UNCHANGED <<filename, exc, directory, stat, files, call, groups, data_file, image,
                   region, regions>>

\* parse_filenames(filenames), without workers
ParseAll ==
    /\ pc = "workers"
    /\ Untaken = 1..Len(call[2])
    /\ \E r \in {parse_filenames(call[2])} :
          /\ ~r.raised
          /\ result' = [i \in 1..Len(r.value) |-> Some(r.value[i])]
    /\ pc' = "merged"
    /\ UNCHANGED <<filename, params, exc, directory, stat, files, call, groups, data_file,
                   image, region, regions>>

\* the files of the stored records, made as discover_files makes them, each
\* on a path that is there or not; image: what reading each file yields
Collect ==
    /\ pc = "merged"
    /\ \E answers \in [1..Len(result) -> {"file", "dangling"}] :
          files' = [i \in 1..Len(result) |->
                      NewDataFile(PathOf(call[2][i]), Get(result[i]),
                                  Get(result[i]).file_type, answers[i]).value]
    /\ image' \in {c \in [1..Len(result) -> BatchContents] :
                      \A i \in 1..Len(result) : CanYield(files'[i], c[i])}
    /\ pc' = "start"
    /\ UNCHANGED <<filename, params, exc, directory, stat, call, groups, data_file, region,
                   regions, result>>

NextIndependent ==
    \/ \E w \in Workers : Take(w) \/ ParseOne(w) \/ Merge(w)
    \/ ParseAll
    \/ Collect
    \/ AnalyzeBatch

SpecIndependent == InitWorkers /\ [][NextIndependent]_vars

(* Properties of independence, checked on SpecIndependent *)

\* the regions that detection gives for the files from the i-th on, each
\* file taken alone
RECURSIVE AloneFrom(_, _, _)
AloneFrom(fs, fds, i) ==
    IF i > Len(fs) THEN <<>>
    ELSE (IF _analyze_single_impact_region(fs[i], fds[i]).region = None THEN <<>>
          ELSE <<Get(_analyze_single_impact_region(fs[i], fds[i]).region)>>)
            \o AloneFrom(fs, fds, i + 1)

====
